---- MODULE Spec2Model ----
(***************************************************************************)
(* Verification model of the signalproject EEG pipeline:                   *)
(*   - lib/ica-processing     (removeArtifactsSimple, removeArtifactsICA)  *)
(*   - lib/signal-processing  (computeFFT, calculateBandPowers, filters)   *)
(*   - lib/emotion-classifier (extractFeatures, normalizeFeatures,         *)
(*                             trainModel, predictEmotion,                 *)
(*                             ruleBasedClassification)                    *)
(*   - lib/signal-generator   (generate*Signal)                            *)
(*   - app/page.tsx           (the analyzer page's handlers)               *)
(*   - app/mind-garden/page.tsx (the game's handlers and state update)     *)
(*                                                                         *)
(* Numbers.  A JavaScript number is an IEEE-754 binary float.  A value is  *)
(* modelled as a pair <<n, d>>: the rational n/d in lowest terms for d > 0,*)
(* and the IEEE special values for d = 0: <<1,0>> = +Infinity,             *)
(* <<-1,0>> = -Infinity, <<0,0>> = NaN.  Signed zeros are not modelled.    *)
(* Operators Q* are the exact operations; operators F* round the exact     *)
(* result to the nearest float of a binary format with Prec mantissa bits  *)
(* and least spacing 2^-Frac (ties to even), which is IEEE-754 double      *)
(* arithmetic with the mantissa shortened from 53 bits.  Overflow to       *)
(* Infinity is not modelled: the inputs are bounded.                       *)
(*                                                                         *)
(* Specifications, one per component, over one set of variables:           *)
(*   SpecArtifact   calls of removeArtifactsSimple                         *)
(*   SpecSynth      calls of the generators                                *)
(*   SpecSpectral   calls of calculateBandPowers, ruleBasedClassification  *)
(*   SpecClassifier trainModel and predictEmotion calls, interleaved       *)
(*   SpecPipeline   a silent signal through the stages the page runs       *)
(*   SpecBoundary   calls of the stages with out-of-range arguments        *)
(*   SpecICA        removeArtifactsICA, one loop iteration per step        *)
(*   SpecStages     calls of the stages, with the caller's array observed  *)
(*   SpecDetect     detectArtifacts and the zeroing of its components      *)
(*   SpecNormalize  calls of normalizeFeatures                             *)
(*   SpecPage       the analyzer page: loads and runs, interleaved         *)
(*   SpecGarden     the Mind Garden page: buttons and processing ticks     *)
(***************************************************************************)
EXTENDS Integers, Sequences, FiniteSets, TLC

\* ------------------------------------------------------------------------
\* Bounds of the model
\* ------------------------------------------------------------------------
\* mantissa bits of the modelled float format
Prec == 3
\* fractional bits: the least spacing between floats is 2^-Frac
Frac == 1
\* longest signal given to removeArtifactsSimple
MaxLen == 3
\* synthesis durations are k/4 seconds for k in -2..MaxQuarter, and the default
MaxQuarter == 6
\* synthesis sample rates are 1..MaxRate Hz, and the default
MaxRate == 3
\* number of trainModel calls made
MaxTrainCalls == 2

\* ------------------------------------------------------------------------
\* Arithmetic helpers
\* ------------------------------------------------------------------------
Abs(x) == IF x < 0 THEN -x ELSE x

Sign(x) == IF x < 0 THEN -1 ELSE IF x > 0 THEN 1 ELSE 0

RECURSIVE GCD(_, _)
GCD(a, b) == IF b = 0 THEN a ELSE GCD(b, a % b)

RECURSIVE Pow2(_)
Pow2(e) == IF e = 0 THEN 1 ELSE 2 * Pow2(e - 1)

\* The value n/d: lowest terms, positive denominator; x/0 is an IEEE special.
Norm(n, d) ==
    IF d = 0 THEN <<Sign(n), 0>>
    ELSE LET g == GCD(Abs(n), Abs(d))
             s == IF d < 0 THEN -1 ELSE 1
         IN  <<(s * n) \div g, (s * d) \div g>>

NaN == <<0, 0>>
PosInf == <<1, 0>>
NegInf == <<-1, 0>>
Zero == <<0, 1>>
QInt(k) == <<k, 1>>

IsNaN(a) == a = NaN
IsFinite(a) == a[2] > 0

\* ------------------------------------------------------------------------
\* Exact operations with IEEE special values
\* ------------------------------------------------------------------------
QNeg(a) == <<-a[1], a[2]>>

QAbs(a) == <<Abs(a[1]), a[2]>>

QAdd(a, b) ==
    IF IsNaN(a) \/ IsNaN(b) THEN NaN
    ELSE IF a[2] = 0 /\ b[2] = 0 THEN (IF a = b THEN a ELSE NaN)
    ELSE IF a[2] = 0 THEN a
    ELSE IF b[2] = 0 THEN b
    ELSE LET g == GCD(a[2], b[2])
         IN  Norm(a[1] * (b[2] \div g) + b[1] * (a[2] \div g), (a[2] \div g) * b[2])

QSub(a, b) == QAdd(a, QNeg(b))

QMul(a, b) ==
    IF a[2] = 0 \/ b[2] = 0 THEN Norm(a[1] * b[1], a[2] * b[2])
    ELSE LET g1 == GCD(Abs(a[1]), b[2])
             g2 == GCD(Abs(b[1]), a[2])
         IN  Norm((a[1] \div g1) * (b[1] \div g2), (a[2] \div g2) * (b[2] \div g1))

\* 1/b: 1/0 = +Infinity, 1/Infinity = 0, 1/NaN = NaN
QRecip(b) ==
    IF b[1] < 0 THEN <<-b[2], -b[1]>>
    ELSE IF b[1] > 0 THEN <<b[2], b[1]>>
    ELSE IF b[2] > 0 THEN PosInf ELSE NaN

QDiv(a, b) == QMul(a, QRecip(b))

\* IEEE comparisons: every comparison with NaN is false
QLt(a, b) ==
    /\ ~IsNaN(a)
    /\ ~IsNaN(b)
    /\ IF a[2] = 0 /\ b[2] = 0 THEN a[1] < b[1]
       ELSE LET g == GCD(a[2], b[2])
            IN  a[1] * (b[2] \div g) < b[1] * (a[2] \div g)

QGt(a, b) == QLt(b, a)

QLe(a, b) == ~IsNaN(a) /\ ~IsNaN(b) /\ ~QLt(b, a)

QGe(a, b) == QLe(b, a)

\* JavaScript ===
QEq(a, b) == ~IsNaN(a) /\ ~IsNaN(b) /\ a = b

\* ------------------------------------------------------------------------
\* Rounding to the float format (round to nearest, ties to even)
\* ------------------------------------------------------------------------
\* nearest integer to p/q (p >= 0, q > 0), ties to even
RoundHalfEven(p, q) ==
    LET k == p \div q
        r == p % q
    IN  IF 2 * r < q THEN k
        ELSE IF 2 * r > q THEN k + 1
        ELSE IF k % 2 = 0 THEN k ELSE k + 1

\* least e >= 0 with p < 2^(Prec+e) * q  (p >= 0, q > 0)
RECURSIVE ExpOf(_, _, _)
ExpOf(p, q, e) == IF p < Pow2(Prec + e) * q THEN e ELSE ExpOf(p, q, e + 1)

\* spacing of the floats at magnitude |a|, as a value
Ulp(a) ==
    IF ~IsFinite(a) THEN NaN
    ELSE Norm(Pow2(ExpOf(Abs(a[1]) * Pow2(Frac), a[2], 0)), Pow2(Frac))

Fl(a) ==
    IF ~IsFinite(a) THEN a
    ELSE LET p == Abs(a[1]) * Pow2(Frac)
             e == ExpOf(p, a[2], 0)
             m == RoundHalfEven(p, a[2] * Pow2(e))
         IN  Norm(Sign(a[1]) * m * Pow2(e), Pow2(Frac))

IsFloat(a) == Fl(a) = a

FAdd(a, b) == Fl(QAdd(a, b))
FSub(a, b) == Fl(QSub(a, b))
FMul(a, b) == Fl(QMul(a, b))
FDiv(a, b) == Fl(QDiv(a, b))

\* least e >= 0 with sqrt(A/B) < 2^(Prec+e)
RECURSIVE SqrtExpOf(_, _, _)
SqrtExpOf(A, B, e) ==
    IF A < Pow2(Prec + e) * Pow2(Prec + e) * B THEN e ELSE SqrtExpOf(A, B, e + 1)

\* Math.sqrt, correctly rounded
FSqrt(a) ==
    IF IsNaN(a) \/ a[1] < 0 THEN NaN
    ELSE IF a = PosInf THEN PosInf
    ELSE LET A == a[1] * Pow2(Frac) * Pow2(Frac)
             e == SqrtExpOf(A, a[2], 0)
             B == a[2] * Pow2(e) * Pow2(e)
             k == CHOOSE k \in 0..Pow2(Prec) :
                     k * k * B <= A /\ (k + 1) * (k + 1) * B > A
             \* compare sqrt(A/B) with k + 1/2
             up == (2 * k + 1) * (2 * k + 1) * B
             m == IF up < 4 * A THEN k + 1
                  ELSE IF up > 4 * A THEN k
                  ELSE IF k % 2 = 0 THEN k ELSE k + 1
         IN  Norm(m * Pow2(e), Pow2(Frac))

\* ------------------------------------------------------------------------
\* Sequence helpers
\* ------------------------------------------------------------------------
\* all sequences over S of length 0..n
SeqsUpTo(S, n) == UNION {[1..k -> S] : k \in 0..n}

\* Array.prototype.reduce((a, b) => a + b, 0)
RECURSIVE FSum(_)
FSum(s) == IF s = <<>> THEN Zero ELSE FAdd(FSum(SubSeq(s, 1, Len(s) - 1)), s[Len(s)])

\* ------------------------------------------------------------------------
\* lib/ica-processing: removeArtifactsSimple
\* ------------------------------------------------------------------------
\* signal.reduce((sum, v) => sum + Math.pow(v - mean, 2), 0)
RECURSIVE FSumSqDev(_, _)
FSumSqDev(s, mean) ==
    IF s = <<>> THEN Zero
    ELSE LET dv == FSub(s[Len(s)], mean)
         IN  FAdd(FSumSqDev(SubSeq(s, 1, Len(s) - 1), mean), FMul(dv, dv))

SignalMean(signal) == FDiv(FSum(signal), QInt(Len(signal)))

SignalStd(signal, mean) == FSqrt(FDiv(FSumSqDev(signal, mean), QInt(Len(signal))))

\* Math.abs(signal[i] - mean) / std, for the 0-based index i
Deviation(signal, mean, std, i) == FDiv(QAbs(FSub(signal[i + 1], mean)), std)

\* RASStep with the operands of the removed-artifact difference exchanged
RASStepSwapped(signal, threshold, mean, std, i, acc) ==
    LET n == Len(signal)
    IN  IF QGt(Deviation(signal, mean, std, i), threshold)
        THEN LET left == IF i > 0 THEN signal[i] ELSE mean
                 right == IF i < n - 1 THEN signal[i + 2] ELSE mean
                 clean == Append(acc.cleanSignal, FDiv(FAdd(left, right), QInt(2)))
             IN  [cleanSignal |-> clean,
                  removedArtifacts |->
                      Append(acc.removedArtifacts, FSub(clean[i + 1], signal[i + 1])),
                  artifactIndices |-> Append(acc.artifactIndices, i)]
        ELSE [cleanSignal |-> Append(acc.cleanSignal, signal[i + 1]),
              removedArtifacts |-> Append(acc.removedArtifacts, Zero),
              artifactIndices |-> acc.artifactIndices]

\* RASStep interpolating from the already cleaned left neighbour
RASStepCleanedLeft(signal, threshold, mean, std, i, acc) ==
    LET n == Len(signal)
    IN  IF QGt(Deviation(signal, mean, std, i), threshold)
        THEN LET left == IF i > 0 THEN acc.cleanSignal[i] ELSE mean
                 right == IF i < n - 1 THEN signal[i + 2] ELSE mean
                 clean == Append(acc.cleanSignal, FDiv(FAdd(left, right), QInt(2)))
             IN  [cleanSignal |-> clean,
                  removedArtifacts |->
                      Append(acc.removedArtifacts, FSub(signal[i + 1], clean[i + 1])),
                  artifactIndices |-> Append(acc.artifactIndices, i)]
        ELSE [cleanSignal |-> Append(acc.cleanSignal, signal[i + 1]),
              removedArtifacts |-> Append(acc.removedArtifacts, Zero),
              artifactIndices |-> acc.artifactIndices]

\* One pass of the for loop at the 0-based index i; acc holds the three arrays.
RASStep(signal, threshold, mean, std, i, acc) ==
    LET n == Len(signal)
    IN  IF QGt(Deviation(signal, mean, std, i), threshold)
        THEN LET left == IF i > 0 THEN signal[i] ELSE mean
                 right == IF i < n - 1 THEN signal[i + 2] ELSE mean
                 clean == Append(acc.cleanSignal, FDiv(FAdd(left, right), QInt(2)))
             IN  [cleanSignal |-> clean,
                  removedArtifacts |->
                      Append(acc.removedArtifacts, FSub(signal[i + 1], clean[i + 1])),
                  artifactIndices |-> Append(acc.artifactIndices, i)]
        ELSE [cleanSignal |-> Append(acc.cleanSignal, signal[i + 1]),
              removedArtifacts |-> Append(acc.removedArtifacts, Zero),
              artifactIndices |-> acc.artifactIndices]

\* for (let i = 0; i < n; i++): the arrays after the passes 0..k-1
RECURSIVE RASLoop(_, _, _, _, _)
RASLoop(signal, threshold, mean, std, k) ==
    IF k = 0
    THEN [cleanSignal |-> <<>>, removedArtifacts |-> <<>>, artifactIndices |-> <<>>]
    ELSE RASStep(signal, threshold, mean, std, k - 1,
                 RASLoop(signal, threshold, mean, std, k - 1))

removeArtifactsSimple(signal, threshold) ==
    LET mean == SignalMean(signal)
        std == SignalStd(signal, mean)
        acc == RASLoop(signal, threshold, mean, std, Len(signal))
    IN  [cleanSignal |-> acc.cleanSignal,
         components |-> <<signal>>,
         removedArtifacts |-> acc.removedArtifacts,
         artifactIndices |-> acc.artifactIndices]

\* ------------------------------------------------------------------------
\* lib/signal-generator
\* A waveform is represented by the sequence of its sample indices 0, 1, ...:
\* the sample values (sines of the sample time, uniform noise) are not
\* computed, the number of samples and their order are.
\* ------------------------------------------------------------------------
DefaultDuration == 10
DefaultSampleRate == 256

\* Math.floor of a finite value
QFloor(a) == a[1] \div a[2]

\* Math.round of a finite value: the nearest integer, halves upwards
QRound(a) == (2 * a[1] + a[2]) \div (2 * a[2])

Samples(n) == [i \in 1..(IF n > 0 THEN n ELSE 0) |-> i - 1]

\* generateSineWave with Math.round in place of Math.floor
generateSineWaveRounded(duration, sampleRate) ==
    Samples(QRound(QMul(duration, QInt(sampleRate))))

\* samples = Math.floor(duration * sampleRate); for (i = 0; i < samples; i++) push
generateSineWave(duration, sampleRate) ==
    Samples(QFloor(QMul(duration, QInt(sampleRate))))

generateNoise(length) == Samples(length)

generatePowerLineNoise(duration, sampleRate) == generateSineWave(duration, sampleRate)

SetMax(S) == CHOOSE x \in S : \A y \in S : y <= x

\* new Array(Math.max(...lengths)).fill(0), then the element-wise sums
addSignals(signals) == Samples(SetMax({Len(signals[j]) : j \in 1..Len(signals)}))

generateAlphaWaves(duration, sampleRate) ==
    addSignals(<<generateSineWave(duration, sampleRate),
                 generateSineWave(duration, sampleRate)>>)

generateBetaWaves(duration, sampleRate) ==
    addSignals(<<generateSineWave(duration, sampleRate),
                 generateSineWave(duration, sampleRate),
                 generateSineWave(duration, sampleRate)>>)

generateThetaWaves(duration, sampleRate) ==
    addSignals(<<generateSineWave(duration, sampleRate),
                 generateSineWave(duration, sampleRate)>>)

generateDeltaWaves(duration, sampleRate) ==
    addSignals(<<generateSineWave(duration, sampleRate),
                 generateSineWave(duration, sampleRate)>>)

generateGammaWaves(duration, sampleRate) ==
    addSignals(<<generateSineWave(duration, sampleRate),
                 generateSineWave(duration, sampleRate)>>)

\* alpha.map((v, i) => ...): one output sample per sample of alpha
MapOver(alpha) == [i \in 1..Len(alpha) |-> alpha[i]]

BrainSignal(data, sampleRate, duration, emotion, label) ==
    [data |-> data, sampleRate |-> sampleRate, duration |-> duration,
     emotion |-> emotion, label |-> label]

generateHappySignal(duration, sampleRate) ==
    LET alpha == generateAlphaWaves(duration, sampleRate)
        beta == generateBetaWaves(duration, sampleRate)
        gamma == generateGammaWaves(duration, sampleRate)
        noise == generateNoise(Len(alpha))
        powerNoise == generatePowerLineNoise(duration, sampleRate)
    IN  BrainSignal(MapOver(alpha), sampleRate, duration, "happy", "Happy Brain Signal")

generateNeutralSignal(duration, sampleRate) ==
    LET alpha == generateAlphaWaves(duration, sampleRate)
        beta == generateBetaWaves(duration, sampleRate)
        theta == generateThetaWaves(duration, sampleRate)
        noise == generateNoise(Len(alpha))
        powerNoise == generatePowerLineNoise(duration, sampleRate)
    IN  BrainSignal(MapOver(alpha), sampleRate, duration, "neutral",
                    "Neutral Brain Signal")

generateSadSignal(duration, sampleRate) ==
    LET alpha == generateAlphaWaves(duration, sampleRate)
        theta == generateThetaWaves(duration, sampleRate)
        delta == generateDeltaWaves(duration, sampleRate)
        noise == generateNoise(Len(alpha))
        powerNoise == generatePowerLineNoise(duration, sampleRate)
    IN  BrainSignal(MapOver(alpha), sampleRate, duration, "sad", "Sad Brain Signal")

\* the label of a custom signal with >= in place of > in the alpha test
CustomEmotionNonStrict(params) ==
    IF QGe(params.alpha, <<4, 5>>) /\ QGt(params.gamma, <<1, 5>>) THEN "happy"
    ELSE IF QGt(params.theta, <<4, 5>>) \/ QGt(params.delta, <<3, 5>>) THEN "sad"
    ELSE "neutral"

\* let emotion = 'neutral'; if (alpha > 0.8 && gamma > 0.2) ... else if (...) ...
CustomEmotion(params) ==
    IF QGt(params.alpha, <<4, 5>>) /\ QGt(params.gamma, <<1, 5>>) THEN "happy"
    ELSE IF QGt(params.theta, <<4, 5>>) \/ QGt(params.delta, <<3, 5>>) THEN "sad"
    ELSE "neutral"

generateCustomSignal(params, duration, sampleRate) ==
    LET alpha == generateAlphaWaves(duration, sampleRate)
        beta == generateBetaWaves(duration, sampleRate)
        theta == generateThetaWaves(duration, sampleRate)
        delta == generateDeltaWaves(duration, sampleRate)
        gamma == generateGammaWaves(duration, sampleRate)
        noise == generateNoise(Len(alpha))
        powerNoise == generatePowerLineNoise(duration, sampleRate)
    IN  BrainSignal(MapOver(alpha), sampleRate, duration, CustomEmotion(params),
                    "Custom Signal")

\* ------------------------------------------------------------------------
\* lib/signal-processing: computeFFT, calculateBandPowers
\* The spectral quantities are computed exactly (no rounding): the claims
\* about them are about binning, signs and tolerances far above one rounding
\* error.  cos and sin of 2*pi*j/n are rational multiples of 1 or sqrt(3) for
\* n in {1, 2, 3, 4, 6}; the squared magnitude of a bin is then rational.
\* ------------------------------------------------------------------------
DftLengths == {0, 1, 2, 3, 4, 6}

\* sin(2*pi*j/n) is a rational multiple of sqrt(Rad(n))
Rad(n) == IF n \in {3, 6} THEN 3 ELSE 1

\* 2 * Math.cos(2 * Math.PI * j / n), j in 0..n-1
Cos2(n, j) ==
    CASE n = 1 -> <<2>>[j + 1]
      [] n = 2 -> <<2, -2>>[j + 1]
      [] n = 3 -> <<2, -1, -1>>[j + 1]
      [] n = 4 -> <<2, 0, -2, 0>>[j + 1]
      [] n = 6 -> <<2, 1, -1, -2, -1, 1>>[j + 1]

\* 2 * Math.sin(2 * Math.PI * j / n) / sqrt(Rad(n)), j in 0..n-1
Sin2(n, j) ==
    CASE n = 1 -> <<0>>[j + 1]
      [] n = 2 -> <<0, 0>>[j + 1]
      [] n = 3 -> <<0, 1, -1>>[j + 1]
      [] n = 4 -> <<0, 2, 0, -2>>[j + 1]
      [] n = 6 -> <<0, 1, 1, 0, -1, -1>>[j + 1]

AllZero(signal) == \A t \in 1..Len(signal) : signal[t] = Zero

\* for (t = 0; t < n; t++) real += signal[t] * Math.cos(angle): twice the sum
\* over t < m
RECURSIVE DftReal2(_, _, _)
DftReal2(signal, k, m) ==
    IF m = 0 THEN Zero
    ELSE QAdd(DftReal2(signal, k, m - 1),
              QMul(signal[m], QInt(Cos2(Len(signal), (k * (m - 1)) % Len(signal)))))

\* imag -= signal[t] * Math.sin(angle): 2/sqrt(Rad) times the sum over t < m
RECURSIVE DftImag2(_, _, _)
DftImag2(signal, k, m) ==
    IF m = 0 THEN Zero
    ELSE QSub(DftImag2(signal, k, m - 1),
              QMul(signal[m], QInt(Sin2(Len(signal), (k * (m - 1)) % Len(signal)))))

\* magnitudes[k] * magnitudes[k] = (real^2 + imag^2) / n^2 for the bin k.  A
\* signal of zeros has real = imag = 0 whatever the angles are.
DftPower(signal, k) ==
    IF AllZero(signal) THEN Zero
    ELSE LET n == Len(signal)
             re2 == DftReal2(signal, k, n)
             im2 == DftImag2(signal, k, n)
         IN  QDiv(QAdd(QMul(re2, re2), QMul(QInt(Rad(n)), QMul(im2, im2))),
                  QInt(4 * n * n))

\* frequencies.push((k * sampleRate) / n)
DftFrequency(n, sampleRate, k) == QDiv(QInt(k * sampleRate), QInt(n))

\* numFreqs = Math.floor(n / 2) bins; magnitudes are kept squared
computeFFT(signal, sampleRate) ==
    LET n == Len(signal)
        numFreqs == n \div 2
    IN  [frequencies |-> [i \in 1..numFreqs |-> DftFrequency(n, sampleRate, i - 1)],
         powers |-> IF AllZero(signal)
                    THEN [i \in 1..numFreqs |-> Zero]
                    ELSE [i \in 1..numFreqs |-> DftPower(signal, i - 1)]]

Bands == {"delta", "theta", "alpha", "beta", "gamma"}

\* the band tests with the gamma band closed below 45 Hz only
BandOfOpenGamma(freq) ==
    IF QGe(freq, <<1, 2>>) /\ QLt(freq, QInt(4)) THEN "delta"
    ELSE IF QGe(freq, QInt(4)) /\ QLt(freq, QInt(8)) THEN "theta"
    ELSE IF QGe(freq, QInt(8)) /\ QLt(freq, QInt(13)) THEN "alpha"
    ELSE IF QGe(freq, QInt(13)) /\ QLt(freq, QInt(30)) THEN "beta"
    ELSE IF QGe(freq, QInt(30)) /\ QLt(freq, QInt(45)) THEN "gamma"
    ELSE "none"

\* if (freq >= 0.5 && freq < 4) ... else if (freq >= 30 && freq <= 45) ...
BandOf(freq) ==
    IF QGe(freq, <<1, 2>>) /\ QLt(freq, QInt(4)) THEN "delta"
    ELSE IF QGe(freq, QInt(4)) /\ QLt(freq, QInt(8)) THEN "theta"
    ELSE IF QGe(freq, QInt(8)) /\ QLt(freq, QInt(13)) THEN "alpha"
    ELSE IF QGe(freq, QInt(13)) /\ QLt(freq, QInt(30)) THEN "beta"
    ELSE IF QGe(freq, QInt(30)) /\ QLe(freq, QInt(45)) THEN "gamma"
    ELSE "none"

\* the band each bin falls in: the pairs <<m, band>> for the bins 1..numFreqs
BinBands(fft) ==
    {<<m, BandOf(fft.frequencies[m])>> : m \in 1..Len(fft.frequencies)}

\* delta += power, theta += power, ...: the sum of the powers of the bins of
\* one band.  The sums are exact, so the order of the additions is immaterial.
RECURSIVE SumPowers(_, _)
SumPowers(fft, bins) ==
    IF bins = {} THEN Zero
    ELSE LET m == CHOOSE m \in bins : TRUE
         IN  QAdd(fft.powers[m], SumPowers(fft, bins \ {m}))

\* deltaCount > 0 ? delta / deltaCount : 0, for the bins of one band
BandMean(fft, bins) ==
    IF Cardinality(bins) > 0
    THEN QDiv(SumPowers(fft, bins), QInt(Cardinality(bins)))
    ELSE Zero

BandPowersOf(fft, binBands) ==
    [b \in Bands |-> BandMean(fft, {p[1] : p \in {q \in binBands : q[2] = b}})]

BandPowersOfFFT(fft) == BandPowersOf(fft, BinBands(fft))

calculateBandPowers(signal, sampleRate) == BandPowersOfFFT(computeFFT(signal, sampleRate))

\* ------------------------------------------------------------------------
\* lib/emotion-classifier: ruleBasedClassification
\* ------------------------------------------------------------------------
\* Math.exp in fixed point: the Taylor series of e^x, x in thousandths, the
\* result in units of 1/ExpScale
ExpScale == 1000
ExpTerms == 12

RECURSIVE ExpSeries(_, _, _)
ExpSeries(x, term, k) ==
    IF k > ExpTerms \/ term = 0 THEN 0
    ELSE term + ExpSeries(x, (term * x) \div (1000 * k), k + 1)

MathExp(a) ==
    IF IsNaN(a) THEN NaN
    ELSE IF a = PosInf THEN PosInf
    ELSE IF a = NegInf THEN Zero
    ELSE Norm(ExpSeries((1000 * a[1]) \div a[2], ExpScale, 1), ExpScale)

EmotionPrediction(emotion, confidence, probabilities) ==
    [emotion |-> emotion, confidence |-> confidence, probabilities |-> probabilities]

\* let emotion = 'neutral'; let maxProb = probabilities.neutral; if (happy >
\* maxProb) ...; if (sad > maxProb) ...
RuleBasedSelect(probabilities) ==
    LET afterHappy == IF QGt(probabilities.happy, probabilities.neutral)
                      THEN <<"happy", probabilities.happy>>
                      ELSE <<"neutral", probabilities.neutral>>
        afterSad == IF QGt(probabilities.sad, afterHappy[2])
                    THEN <<"sad", probabilities.sad>>
                    ELSE afterHappy
    IN  EmotionPrediction(afterSad[1], afterSad[2], probabilities)

\* total = delta + theta + alpha + beta + gamma
TotalPower(bandPowers) ==
    QAdd(QAdd(QAdd(QAdd(bandPowers.delta, bandPowers.theta), bandPowers.alpha),
              bandPowers.beta), bandPowers.gamma)

\* normalized = { delta: delta / total, ... }: no test of total against 0
NormalizedPowers(bandPowers, total) == [b \in Bands |-> QDiv(bandPowers[b], total)]

\* alpha * 1.5 + beta * 0.8 + gamma * 1.2
HappyScore(normalized) ==
    QAdd(QAdd(QMul(normalized.alpha, <<3, 2>>), QMul(normalized.beta, <<4, 5>>)),
         QMul(normalized.gamma, <<6, 5>>))

\* alpha * 1.0 + beta * 1.0 + theta * 0.5
NeutralScore(normalized) ==
    QAdd(QAdd(QMul(normalized.alpha, QInt(1)), QMul(normalized.beta, QInt(1))),
         QMul(normalized.theta, <<1, 2>>))

\* theta * 1.5 + delta * 1.2 - alpha * 0.5
SadScore(normalized) ==
    QSub(QAdd(QMul(normalized.theta, <<3, 2>>), QMul(normalized.delta, <<6, 5>>)),
         QMul(normalized.alpha, <<1, 2>>))

\* probabilities = { happy: expHappy / expSum, ... }
SoftmaxOver(expHappy, expNeutral, expSad, expSum) ==
    [happy |-> QDiv(expHappy, expSum),
     neutral |-> QDiv(expNeutral, expSum),
     sad |-> QDiv(expSad, expSum)]

\* expSum = expHappy + expNeutral + expSad
Softmax(expHappy, expNeutral, expSad) ==
    SoftmaxOver(expHappy, expNeutral, expSad, QAdd(QAdd(expHappy, expNeutral), expSad))

\* expHappy = Math.exp(happyScore), expNeutral = Math.exp(neutralScore),
\* expSad = Math.exp(sadScore * 0.8)
ClassifyNormalized(normalized) ==
    RuleBasedSelect(Softmax(MathExp(HappyScore(normalized)),
                            MathExp(NeutralScore(normalized)),
                            MathExp(QMul(SadScore(normalized), <<4, 5>>))))

ClassifyBandPowers(bandPowers) ==
    ClassifyNormalized(NormalizedPowers(bandPowers, TotalPower(bandPowers)))

ruleBasedClassification(signal, sampleRate) ==
    ClassifyBandPowers(calculateBandPowers(signal, sampleRate))

\* ------------------------------------------------------------------------
\* lib/signal-processing: the filters.  The arithmetic is exact, except for
\* the subtraction of highPassFilter, which rounds.  The trigonometric
\* factors of the coefficients are tabulated to 1/4096 for the sample rate
\* the page uses with the cutoffs its filter controls offer, and exactly for
\* cutoffs above the Nyquist frequency and for a cutoff or a notch at a
\* quarter of the sample rate.
\* ------------------------------------------------------------------------
\* Math.tan(Math.PI * cutoffFreq / sampleRate)
MathTanPi(cutoffFreq, sampleRate) ==
    CASE sampleRate = 256 /\ cutoffFreq = <<1, 10>> -> Norm(5, 4096)
      [] sampleRate = 256 /\ cutoffFreq = <<1, 2>> -> Norm(25, 4096)
      [] sampleRate = 256 /\ cutoffFreq = <<45, 1>> -> Norm(2524, 4096)
      [] sampleRate = 256 /\ cutoffFreq = <<100, 1>> -> Norm(11448, 4096)
      [] sampleRate = 256 /\ cutoffFreq = <<64, 1>> -> Norm(4096, 4096)
      [] sampleRate = 200 /\ cutoffFreq = <<50, 1>> -> Norm(4096, 4096)
      [] sampleRate = 256 /\ cutoffFreq = <<192, 1>> -> Norm(-4096, 4096)
      [] sampleRate = 256 /\ cutoffFreq = <<256, 1>> -> Norm(0, 4096)

\* Math.sin(2 * Math.PI * notchFreq / sampleRate)
MathSin2Pi(notchFreq, sampleRate) ==
    CASE sampleRate = 256 /\ notchFreq = 50 -> Norm(3857, 4096)
      [] sampleRate = 256 /\ notchFreq = 60 -> Norm(4076, 4096)
      [] sampleRate = 256 /\ notchFreq = 192 -> Norm(-4096, 4096)
      [] sampleRate = 200 /\ notchFreq = 50 -> Norm(4096, 4096)
      [] sampleRate = 240 /\ notchFreq = 60 -> Norm(4096, 4096)

\* Math.cos(2 * Math.PI * notchFreq / sampleRate)
MathCos2Pi(notchFreq, sampleRate) ==
    CASE sampleRate = 256 /\ notchFreq = 50 -> Norm(1380, 4096)
      [] sampleRate = 256 /\ notchFreq = 60 -> Norm(401, 4096)
      [] sampleRate = 256 /\ notchFreq = 192 -> Norm(0, 4096)
      [] sampleRate = 200 /\ notchFreq = 50 -> Norm(0, 4096)
      [] sampleRate = 240 /\ notchFreq = 60 -> Norm(0, 4096)

\* Math.sqrt(2), to 1e-4
MathSqrt2 == Norm(99, 70)

\* b0 = wc2 / k, b1 = 2 * wc2 / k, b2 = wc2 / k, a1 = 2 * (wc2 - 1) / k,
\* a2 = (1 - sqrt2 * wc + wc2) / k
ButterworthOver(wc, wc2, k) ==
    [b |-> <<QDiv(wc2, k), QDiv(QMul(QInt(2), wc2), k), QDiv(wc2, k)>>,
     a |-> <<QInt(1),
             QDiv(QMul(QInt(2), QSub(wc2, QInt(1))), k),
             QDiv(QAdd(QSub(QInt(1), QMul(MathSqrt2, wc)), wc2), k)>>]

\* k = 1 + sqrt2 * wc + wc2
ButterworthOfWc(wc, wc2) ==
    ButterworthOver(wc, wc2, QAdd(QAdd(QInt(1), QMul(MathSqrt2, wc)), wc2))

butterworthCoeffs(cutoffFreq, sampleRate) ==
    LET wc == MathTanPi(cutoffFreq, sampleRate)
    IN  ButterworthOfWc(wc, QMul(wc, wc))

\* sum += b[j] * signal[i - j], for the j, j+1, .., b.length-1 with i - j >= 0
RECURSIVE FeedForward(_, _, _, _, _)
FeedForward(signal, b, i, j, sum) ==
    IF j >= Len(b) THEN sum
    ELSE FeedForward(signal, b, i, j + 1,
                     IF i - j >= 0 THEN QAdd(sum, QMul(b[j + 1], signal[i - j + 1]))
                     ELSE sum)

\* sum -= a[j] * output[i - j], for the j, j+1, .., a.length-1 with i - j >= 0
RECURSIVE Feedback(_, _, _, _, _)
Feedback(output, a, i, j, sum) ==
    IF j >= Len(a) THEN sum
    ELSE Feedback(output, a, i, j + 1,
                  IF i - j >= 0 THEN QSub(sum, QMul(a[j + 1], output[i - j + 1]))
                  ELSE sum)

\* the output samples 0..m-1
RECURSIVE IIROutput(_, _, _, _)
IIROutput(signal, b, a, m) ==
    IF m = 0 THEN <<>>
    ELSE LET output == IIROutput(signal, b, a, m - 1)
             i == m - 1
         IN  Append(output,
                    Feedback(output, a, i, 1, FeedForward(signal, b, i, 0, Zero)))

applyIIRFilter(signal, b, a) == IIROutput(signal, b, a, Len(signal))

Reverse(signal) == [i \in 1..Len(signal) |-> signal[Len(signal) + 1 - i]]

\* filtfilt's arrays: the caller's signal and the local filtered.  reverse()
\* works in place, on the array applyIIRFilter has created.
FiltfiltArrays(signal) == [signal |-> signal, filtered |-> <<>>]

\* applyIIRFilter writing its output into signal instead of a new array
ApplyToSignalInPlace(arrays, b, a) ==
    [arrays EXCEPT !.filtered = applyIIRFilter(arrays.signal, b, a),
                   !.signal = applyIIRFilter(arrays.signal, b, a)]

\* let filtered = applyIIRFilter(signal, b, a)
ApplyToSignal(arrays, b, a) ==
    [arrays EXCEPT !.filtered = applyIIRFilter(arrays.signal, b, a)]

\* the reversals left out
ReverseFilteredNot(arrays) == arrays

\* filtered = filtered.reverse()
ReverseFiltered(arrays) == [arrays EXCEPT !.filtered = Reverse(arrays.filtered)]

\* filtered = applyIIRFilter(filtered, b, a)
ApplyToFiltered(arrays, b, a) ==
    [arrays EXCEPT !.filtered = applyIIRFilter(arrays.filtered, b, a)]

FiltfiltRun(signal, b, a) ==
    ReverseFiltered(
        ApplyToFiltered(
            ReverseFiltered(ApplyToSignal(FiltfiltArrays(signal), b, a)), b, a))

filtfilt(signal, b, a) == FiltfiltRun(signal, b, a).filtered

\* const { b, a } = ...; return filtfilt(signal, b, a)
FiltfiltWith(signal, coeffs) == filtfilt(signal, coeffs.b, coeffs.a)

lowPassFilter(signal, cutoffFreq, sampleRate) ==
    FiltfiltWith(signal, butterworthCoeffs(cutoffFreq, sampleRate))

\* lowPassed[i] - v in place of v - lowPassed[i]
ComplementSwapped(signal, lowPassed) ==
    [i \in 1..Len(signal) |-> FSub(Fl(lowPassed[i]), signal[i])] \o <<>>

\* signal.map((v, i) => v - lowPassed[i]): a floating-point subtraction, of
\* the low-pass output as the float nearest to its exact value
Complement(signal, lowPassed) ==
    [i \in 1..Len(signal) |-> FSub(signal[i], Fl(lowPassed[i]))] \o <<>>

highPassFilter(signal, cutoffFreq, sampleRate) ==
    Complement(signal, lowPassFilter(signal, cutoffFreq, sampleRate))

bandPassFilter(signal, lowFreq, highFreq, sampleRate) ==
    lowPassFilter(highPassFilter(signal, lowFreq, sampleRate), highFreq, sampleRate)

\* b = [b0 / a0, b1 / a0, b2 / a0], a = [1, a1 / a0, a2 / a0], with b0 = b2 = 1
\* and a1 = b1
NotchOver(b1, a0, a2) ==
    [b |-> <<QDiv(QInt(1), a0), QDiv(b1, a0), QDiv(QInt(1), a0)>>,
     a |-> <<QInt(1), QDiv(b1, a0), QDiv(a2, a0)>>]

\* b1 = -2 * Math.cos(w0), a0 = 1 + alpha, a2 = 1 - alpha
NotchOfAlpha(cosW0, alpha) ==
    NotchOver(QMul(QInt(-2), cosW0), QAdd(QInt(1), alpha), QSub(QInt(1), alpha))

\* bandwidth = 2: Q = notchFreq / bandwidth, alpha = Math.sin(w0) / (2 * Q)
notchCoeffs(notchFreq, sampleRate) ==
    NotchOfAlpha(MathCos2Pi(notchFreq, sampleRate),
                 QDiv(MathSin2Pi(notchFreq, sampleRate),
                      QMul(QInt(2), QDiv(QInt(notchFreq), QInt(2)))))

notchFilter(signal, notchFreq, sampleRate) ==
    FiltfiltWith(signal, notchCoeffs(notchFreq, sampleRate))

PreprocessingResult(original, afterBandpass, afterNotch) ==
    [original |-> original, afterBandpass |-> afterBandpass,
     afterNotch |-> afterNotch, final |-> afterNotch]

\* Step 2: afterNotch = notchFilter(afterBandpass, notchFreq, sampleRate)
PreprocessNotch(signal, sampleRate, afterBandpass, notchFreq) ==
    PreprocessingResult(signal, afterBandpass,
                        notchFilter(afterBandpass, notchFreq, sampleRate))

\* Step 1: afterBandpass = bandPassFilter(signal, low, high, sampleRate)
preprocessSignal(signal, sampleRate, bandpassLow, bandpassHigh, notchFreq) ==
    PreprocessNotch(signal, sampleRate,
                    bandPassFilter(signal, bandpassLow, bandpassHigh, sampleRate),
                    notchFreq)

\* ------------------------------------------------------------------------
\* lib/emotion-classifier: extractFeatures, normalizeFeatures
\* ------------------------------------------------------------------------
DefaultWindowSize == 256
DefaultSequenceLength == 10

\* Array.prototype.slice(start, end): a negative index counts from the end
SliceIndex(len, k) == IF k < 0 THEN (IF len + k > 0 THEN len + k ELSE 0)
                      ELSE (IF k < len THEN k ELSE len)

Slice(signal, start, end) ==
    LET from == SliceIndex(Len(signal), start)
        to == SliceIndex(Len(signal), end)
    IN  IF to > from THEN SubSeq(signal, from + 1, to) ELSE <<>>

\* while (window.length < windowSize) window.push(0)
PadWindow(window, windowSize) ==
    IF Len(window) >= windowSize THEN window
    ELSE window \o [i \in 1..(windowSize - Len(window)) |-> Zero]

\* [bandPowers.delta, bandPowers.theta, bandPowers.alpha, bandPowers.beta,
\* bandPowers.gamma]
FeatureRow(bandPowers) ==
    <<bandPowers.delta, bandPowers.theta, bandPowers.alpha, bandPowers.beta,
      bandPowers.gamma>>

\* extractFeatures' arrays in one pass of its loop: the caller's signal and the
\* local window, which slice() has created
WindowArrays(signal, start, end) ==
    [signal |-> signal,
     window |-> Slice(signal, start, IF end < Len(signal) THEN end ELSE Len(signal))]

\* while (window.length < windowSize) window.push(0)
PushZeros(arrays, windowSize) ==
    [arrays EXCEPT !.window = PadWindow(arrays.window, windowSize)]

\* window = signal.slice(start, Math.min(end, signal.length)), padded
FeatureWindow(signal, windowSize, start, end) ==
    PushZeros(WindowArrays(signal, start, end), windowSize).window

\* the caller's signal after the passes 0..m-1
RECURSIVE SignalAfterWindows(_, _, _, _)
SignalAfterWindows(signal, windowSize, stepSize, m) ==
    IF m = 0 THEN signal
    ELSE PushZeros(WindowArrays(SignalAfterWindows(signal, windowSize, stepSize, m - 1),
                                (m - 1) * stepSize, (m - 1) * stepSize + windowSize),
                   windowSize).signal

\* features.push(...) for the windows 0..m-1
RECURSIVE FeatureRows(_, _, _, _, _)
FeatureRows(signal, sampleRate, windowSize, stepSize, m) ==
    IF m = 0 THEN <<>>
    ELSE Append(FeatureRows(signal, sampleRate, windowSize, stepSize, m - 1),
                FeatureRow(calculateBandPowers(
                    FeatureWindow(signal, windowSize, (m - 1) * stepSize,
                                  (m - 1) * stepSize + windowSize),
                    sampleRate)))

\* the step rounded up in place of Math.floor
extractFeaturesCeilStep(signal, sampleRate, windowSize, sequenceLength) ==
    FeatureRows(signal, sampleRate, windowSize,
                -((windowSize - Len(signal)) \div (sequenceLength - 1)), sequenceLength)

extractFeatures(signal, sampleRate, windowSize, sequenceLength) ==
    FeatureRows(signal, sampleRate, windowSize,
                (Len(signal) - windowSize) \div (sequenceLength - 1), sequenceLength)

\* Math.min and Math.max: NaN if either argument is
MathMin(a, b) == IF IsNaN(a) \/ IsNaN(b) THEN NaN ELSE IF QLt(b, a) THEN b ELSE a
MathMax(a, b) == IF IsNaN(a) \/ IsNaN(b) THEN NaN ELSE IF QGt(b, a) THEN b ELSE a

\* the running minimum started at 0 in place of Infinity
RECURSIVE FeatureMinFromZero(_, _, _)
FeatureMinFromZero(features, i, m) ==
    IF m = 0 THEN Zero
    ELSE MathMin(FeatureMinFromZero(features, i, m - 1), features[m][i])

\* mins[i] and maxs[i] after the first m rows
RECURSIVE FeatureMin(_, _, _)
FeatureMin(features, i, m) ==
    IF m = 0 THEN PosInf ELSE MathMin(FeatureMin(features, i, m - 1), features[m][i])

RECURSIVE FeatureMax(_, _, _)
FeatureMax(features, i, m) ==
    IF m = 0 THEN NegInf ELSE MathMax(FeatureMax(features, i, m - 1), features[m][i])

\* range > 0 ? (v - mins[i]) / range : 0.5
normalizeFeatures(features) ==
    LET numFeatures == Len(features[1])
        mins == [i \in 1..numFeatures |-> FeatureMin(features, i, Len(features))]
        maxs == [i \in 1..numFeatures |-> FeatureMax(features, i, Len(features))]
    IN  [r \in 1..Len(features) |->
            [i \in 1..numFeatures |->
                LET range == QSub(maxs[i], mins[i])
                IN  IF QGt(range, Zero)
                    THEN QDiv(QSub(features[r][i], mins[i]), range)
                    ELSE <<1, 2>>]]

\* ------------------------------------------------------------------------
\* lib/emotion-classifier: predictEmotion (the model path), trainModel
\* ------------------------------------------------------------------------
\* let maxProb = 0; let emotion = 'neutral'; if (happy > maxProb) ...; if
\* (neutral > maxProb) ...; if (sad > maxProb) ...
ModelSelect(probabilities) ==
    LET afterHappy == IF QGt(probabilities.happy, Zero)
                      THEN <<"happy", probabilities.happy>>
                      ELSE <<"neutral", Zero>>
        afterNeutral == IF QGt(probabilities.neutral, afterHappy[2])
                        THEN <<"neutral", probabilities.neutral>>
                        ELSE afterHappy
        afterSad == IF QGt(probabilities.sad, afterNeutral[2])
                    THEN <<"sad", probabilities.sad>>
                    ELSE afterNeutral
    IN  EmotionPrediction(afterSad[1], afterSad[2], probabilities)

\* The module-level handle: let model: tf.LayersModel | null = null.  0 is
\* null, i > 0 is the i-th instance createLSTMModel made.
NullModel == 0

\* a tf.LayersModel as far as the handle's life goes: the fits it completed,
\* and whether a fit() is running on it
NewInstance == [fits |-> 0, training |-> FALSE]

\* a trainModel call that has not been made yet
NoTrainer == [pc |-> "idle", created |-> NullModel, target |-> NullModel,
              result |-> NullModel]

\* await model.fit(...) on the instance the handle names now.  tf.LayersModel
\* refuses a fit() while another fit() runs on the same instance: the call
\* rejects.
StartFit(state, t, handle) ==
    IF state.instances[handle].training
    THEN [state EXCEPT !.trainers[t].pc = "rejected"]
    ELSE [state EXCEPT !.instances[handle].training = TRUE,
                       !.trainers[t].pc = "fitting",
                       !.trainers[t].target = handle]

\* ------------------------------------------------------------------------
\* State
\* ------------------------------------------------------------------------
VARIABLES
    raCall,     \* the pending or last call of removeArtifactsSimple: its arguments
    raResult,   \* its ICAResult, once it has returned
    genCall,    \* the pending or last call of a signal generator: its arguments
    genResult,  \* the BrainSignal it returned
    spCall,     \* the pending or last call of a spectral function: its arguments
    spResult,   \* what it returned: BandPowers or an EmotionPrediction
    model,      \* emotion-classifier's module-level handle (NullModel = null)
    instances,  \* the tf.LayersModel instances created so far
    trainers,   \* the trainModel calls: where each stands
    microtasks, \* the trainModel calls suspended at await createLSTMModel()
    predResult, \* what the last predictEmotion call did and returned
    pipe,       \* a signal on its way through the processing stages
    stage,      \* the pending or last call of one processing stage, and its outcome
    ica,        \* a call of removeArtifactsICA: where it stands
    det,        \* the components of an ICA call on their way to reconstruction
    page,       \* the analyzer page: its React state and its pending runs
    garden      \* the Mind Garden page: its game state and its pending runs

clVars == <<model, instances, trainers, microtasks, predResult>>

appVars == <<det, page, garden>>

vars == <<raCall, raResult, genCall, genResult, spCall, spResult, clVars, pipe,
         stage, ica, appVars>>

raVars == <<raCall, raResult>>
genVars == <<genCall, genResult>>
spVars == <<spCall, spResult>>

NoCall == [pc |-> "idle"]

NoSignal == [data |-> <<>>, sampleRate |-> 0, duration |-> Zero,
             emotion |-> "none", label |-> "none"]

NoResult == [cleanSignal |-> <<>>, components |-> <<>>,
             removedArtifacts |-> <<>>, artifactIndices |-> <<>>]

NoBandPowers == [b \in Bands |-> Zero]

NoPrediction == [emotion |-> "none", confidence |-> Zero,
                 probabilities |-> [happy |-> Zero, neutral |-> Zero, sad |-> Zero]]

NoSpectral == [bandPowers |-> NoBandPowers, prediction |-> NoPrediction]

\* a component no call of which is pending or has returned
RaIdle == raCall = NoCall /\ raResult = NoResult
GenIdle == genCall = NoCall /\ genResult = NoSignal
SpIdle == spCall = NoCall /\ spResult = NoSpectral

\* no signal is on its way through the stages
PipeIdle == pipe = NoCall

\* no stage has been called, no removeArtifactsICA call is under way
StageIdle == stage = NoCall
IcaIdle == ica = NoCall
DetIdle == det = NoCall
PageIdle == page = NoCall
GardenIdle == garden = NoCall

NoPredict == [path |-> "none", signal |-> <<>>, sampleRate |-> 0,
              fitted |-> FALSE, prediction |-> NoPrediction]

\* the classifier module as loaded: no model, no call made
ClInit ==
    /\ model = NullModel
    /\ instances = <<>>
    /\ trainers = [t \in 1..MaxTrainCalls |-> NoTrainer]
    /\ microtasks = <<>>
    /\ predResult = NoPredict

\* ------------------------------------------------------------------------
\* Artifact removal: the inputs and the call
\* ------------------------------------------------------------------------
\* sample values, as number literals
SampleValues == {Fl(QInt(-3)), Fl(QInt(0)), Fl(QInt(1)), Fl(QInt(10))}

Thresholds == {QInt(0), QInt(1), QInt(3)}

InitArtifact ==
    /\ raCall \in [signal : SeqsUpTo(SampleValues, MaxLen),
                   threshold : Thresholds,
                   pc : {"called"}]
    /\ raResult = NoResult
    /\ GenIdle
    /\ SpIdle
    /\ ClInit
    /\ PipeIdle
    /\ StageIdle
    /\ IcaIdle
    /\ DetIdle
    /\ PageIdle
    /\ GardenIdle

RemoveArtifactsSimple ==
    /\ raCall.pc = "called"
    /\ raResult' = removeArtifactsSimple(raCall.signal, raCall.threshold)
    /\ raCall' = [raCall EXCEPT !.pc = "returned"]
    /\ UNCHANGED <<genVars, spVars, clVars, pipe, stage, ica, appVars>>

NextArtifact == RemoveArtifactsSimple

SpecArtifact == InitArtifact /\ [][NextArtifact]_vars

\* ------------------------------------------------------------------------
\* Claims about removeArtifactsSimple
\* ------------------------------------------------------------------------
RaReturned == raCall.pc = "returned"

\* the 0-based indices the call flagged
RaFlagged == {raResult.artifactIndices[j] : j \in 1..Len(raResult.artifactIndices)}

\* C1 as stated: for every sample index i of a statistical-strategy call,
\* cleanSignal[i] + removedArtifacts[i] equals signal[i] exactly, flagged or not.
C1_SumEqualsSignalExactly ==
    RaReturned =>
        \A i \in 1..Len(raCall.signal) :
            QEq(FAdd(raResult.cleanSignal[i], raResult.removedArtifacts[i]),
                raCall.signal[i])

\* C1 amended: for a finite input, at an unflagged sample the sum
\* cleanSignal[i] + removedArtifacts[i] equals signal[i] exactly; at a flagged
\* sample removedArtifacts[i] is the rounded difference signal[i] - cleanSignal[i]
\* and the sum differs from signal[i] by at most the two rounding errors, half a
\* unit in the last place of removedArtifacts[i] plus half a unit of the sum.
C1_SumEqualsSignalUpToRounding ==
    RaReturned =>
        \A i \in 1..Len(raCall.signal) :
            LET c == raResult.cleanSignal[i]
                r == raResult.removedArtifacts[i]
                s == raCall.signal[i]
                sum == FAdd(c, r)
            IN  IF (i - 1) \in RaFlagged
                THEN /\ r = FSub(s, c)
                     /\ QLe(QMul(QInt(2), QAbs(QSub(sum, s))), QAdd(Ulp(r), Ulp(sum)))
                ELSE QEq(sum, s)

\* a returned call with a flagged and an unflagged sample
C1_Witness ==
    /\ RaReturned
    /\ RaFlagged # {}
    /\ \E i \in 1..Len(raCall.signal) : (i - 1) \notin RaFlagged

\* C10: sample i is flagged iff |signal[i] - mean| / std > threshold (strictly),
\* mean and std taken once over the whole input; a flagged sample becomes
\* (left + right) / 2 with left and right the neighbours in the original input,
\* the global mean standing in at index 0 and at index n-1.
C10_FlagAndInterpolate ==
    RaReturned =>
        LET signal == raCall.signal
            n == Len(signal)
            mean == FDiv(FSum(signal), QInt(n))
            std == FSqrt(FDiv(FSumSqDev(signal, mean), QInt(n)))
        IN  \A i \in 0..(n - 1) :
                LET z == FDiv(QAbs(FSub(signal[i + 1], mean)), std)
                    left == IF i = 0 THEN mean ELSE signal[i]
                    right == IF i = n - 1 THEN mean ELSE signal[i + 2]
                IN  /\ (i \in RaFlagged) <=> QGt(z, raCall.threshold)
                    /\ (i \in RaFlagged) =>
                           raResult.cleanSignal[i + 1] = FDiv(FAdd(left, right), QInt(2))

\* a returned call in which two adjacent samples were flagged and the first of
\* them was changed, and one whose first and last samples were flagged
C10_Witness ==
    /\ RaReturned
    /\ Len(raCall.signal) >= 3
    /\ {0, 1, Len(raCall.signal) - 1} \subseteq RaFlagged
    /\ raResult.cleanSignal[1] # raCall.signal[1]

\* ------------------------------------------------------------------------
\* Signal synthesis: the inputs and the calls
\* ------------------------------------------------------------------------
\* durations in seconds: dyadic, so that duration * sampleRate is computed exactly
Durations == {Norm(k, 4) : k \in -2..MaxQuarter} \cup {QInt(DefaultDuration)}

SampleRates == (1..MaxRate) \cup {DefaultSampleRate}

\* band weights on both sides of and at the labelling thresholds
CustomParams ==
    [alpha : {<<4, 5>>, <<9, 10>>},
     beta : {<<1, 2>>},
     theta : {<<4, 5>>, <<9, 10>>},
     delta : {<<3, 5>>, <<7, 10>>},
     gamma : {<<1, 5>>, <<3, 10>>},
     noiseLevel : {Zero, <<1, 5>>},
     powerNoiseFreq : {50, 60},
     powerNoiseLevel : {<<3, 10>>}]

NoParams == [alpha |-> Zero, beta |-> Zero, theta |-> Zero, delta |-> Zero,
             gamma |-> Zero, noiseLevel |-> Zero, powerNoiseFreq |-> 50,
             powerNoiseLevel |-> Zero]

InitSynth ==
    /\ \/ genCall \in [fn : {"happy", "neutral", "sad"}, params : {NoParams},
                       duration : Durations, sampleRate : SampleRates,
                       pc : {"called"}]
       \/ genCall \in [fn : {"custom"}, params : CustomParams,
                       duration : Durations, sampleRate : SampleRates,
                       pc : {"called"}]
    /\ genResult = NoSignal
    /\ RaIdle
    /\ SpIdle
    /\ ClInit
    /\ PipeIdle
    /\ StageIdle
    /\ IcaIdle
    /\ DetIdle
    /\ PageIdle
    /\ GardenIdle

GenerateHappySignal ==
    /\ genCall.pc = "called"
    /\ genCall.fn = "happy"
    /\ genResult' = generateHappySignal(genCall.duration, genCall.sampleRate)
    /\ genCall' = [genCall EXCEPT !.pc = "returned"]
    /\ UNCHANGED <<raVars, spVars, clVars, pipe, stage, ica, appVars>>

GenerateNeutralSignal ==
    /\ genCall.pc = "called"
    /\ genCall.fn = "neutral"
    /\ genResult' = generateNeutralSignal(genCall.duration, genCall.sampleRate)
    /\ genCall' = [genCall EXCEPT !.pc = "returned"]
    /\ UNCHANGED <<raVars, spVars, clVars, pipe, stage, ica, appVars>>

GenerateSadSignal ==
    /\ genCall.pc = "called"
    /\ genCall.fn = "sad"
    /\ genResult' = generateSadSignal(genCall.duration, genCall.sampleRate)
    /\ genCall' = [genCall EXCEPT !.pc = "returned"]
    /\ UNCHANGED <<raVars, spVars, clVars, pipe, stage, ica, appVars>>

GenerateCustomSignal ==
    /\ genCall.pc = "called"
    /\ genCall.fn = "custom"
    /\ genResult' =
           generateCustomSignal(genCall.params, genCall.duration, genCall.sampleRate)
    /\ genCall' = [genCall EXCEPT !.pc = "returned"]
    /\ UNCHANGED <<raVars, spVars, clVars, pipe, stage, ica, appVars>>

NextSynth ==
    \/ GenerateHappySignal
    \/ GenerateNeutralSignal
    \/ GenerateSadSignal
    \/ GenerateCustomSignal

SpecSynth == InitSynth /\ [][NextSynth]_vars

\* ------------------------------------------------------------------------
\* Claims about the signal generators
\* ------------------------------------------------------------------------
GenReturned == genCall.pc = "returned"

GenProduct == QMul(genCall.duration, QInt(genCall.sampleRate))

\* C7 as stated: for duration >= 0 and sampleRate > 0 every generator returns
\* data of length exactly round(duration * sampleRate).
C7_LengthIsRounded ==
    (GenReturned /\ QGe(genCall.duration, Zero) /\ genCall.sampleRate > 0) =>
        Len(genResult.data) = QRound(GenProduct)

\* C7 amended: for duration >= 0 and sampleRate > 0 every generator returns
\* data of length exactly floor(duration * sampleRate), the product truncated.
C7_LengthIsTruncated ==
    (GenReturned /\ QGe(genCall.duration, Zero) /\ genCall.sampleRate > 0) =>
        Len(genResult.data) = QFloor(GenProduct)

\* a returned custom call whose duration * sampleRate is not an integer and lies
\* in the upper half of its unit interval
C7_Witness ==
    /\ GenReturned
    /\ genCall.fn = "custom"
    /\ QGt(genCall.duration, Zero)
    /\ GenProduct[2] # 1
    /\ QRound(GenProduct) # QFloor(GenProduct)
    /\ Len(genResult.data) > 0

\* C8: the custom label is happy iff alpha > 0.8 and gamma > 0.2; otherwise sad
\* iff theta > 0.8 or delta > 0.6; otherwise neutral: happy takes precedence,
\* the comparisons are strict, and nothing but the four weights decides it.
C8_CustomLabel ==
    (GenReturned /\ genCall.fn = "custom") =>
        LET w == genCall.params
            happy == QGt(w.alpha, <<4, 5>>) /\ QGt(w.gamma, <<1, 5>>)
            sad == QGt(w.theta, <<4, 5>>) \/ QGt(w.delta, <<3, 5>>)
        IN  /\ (genResult.emotion = "happy") <=> happy
            /\ (genResult.emotion = "sad") <=> (~happy /\ sad)
            /\ (genResult.emotion = "neutral") <=> (~happy /\ ~sad)

\* a returned custom call with alpha exactly 0.8, gamma above 0.2 and the sad
\* test failing, labelled neutral
C8_Witness ==
    /\ GenReturned
    /\ genCall.fn = "custom"
    /\ genCall.params.alpha = <<4, 5>>
    /\ genCall.params.gamma = <<3, 10>>
    /\ genCall.params.theta = <<4, 5>>
    /\ genCall.params.delta = <<3, 5>>
    /\ genResult.emotion = "neutral"

\* ------------------------------------------------------------------------
\* Spectral analysis and rule-based classification: the inputs and the calls
\* ------------------------------------------------------------------------
\* signals of the lengths whose DFT is computed exactly
SpectralSignals ==
    UNION {[1..n -> {QInt(-2), QInt(0), QInt(1)}] : n \in {0, 1, 2, 3, 4}}
        \cup [1..6 -> {QInt(0), QInt(1)}]

\* sample rates that put the bins of those lengths at, between and beyond the
\* band edges 0.5, 4, 8, 13, 30 and 45 Hz
SpectralRates == {1, 2, 8, 16, 24, 32, 52, 120, 180, 184, 256}

\* the sum of the squared magnitudes of the bins that lie in some band
RECURSIVE InBandPower(_, _)
InBandPower(fft, m) ==
    IF m = 0 THEN Zero
    ELSE QAdd(InBandPower(fft, m - 1),
              IF BandOf(fft.frequencies[m]) = "none" THEN Zero ELSE fft.powers[m])

\* In double arithmetic Math.cos(Math.PI / 2) is 6e-17, not 0: bins that cancel
\* exactly for a signal that is not all zeros are not exactly zero in the code.
\* The classifier is given the signals on which the exact DFT and the code
\* agree about a zero in-band power.
ZeroPowerIsExact(signal, sampleRate) ==
    LET fft == computeFFT(signal, sampleRate)
    IN  \/ AllZero(signal)
        \/ \A m \in 1..Len(fft.frequencies) : BandOf(fft.frequencies[m]) = "none"
        \/ InBandPower(fft, Len(fft.frequencies)) # Zero

InitSpectral ==
    /\ \/ spCall \in [fn : {"calculateBandPowers"}, signal : SpectralSignals,
                      sampleRate : SpectralRates, pc : {"called"}]
       \/ /\ spCall \in [fn : {"ruleBasedClassification"}, signal : SpectralSignals,
                         sampleRate : SpectralRates, pc : {"called"}]
          /\ ZeroPowerIsExact(spCall.signal, spCall.sampleRate)
    /\ spResult = NoSpectral
    /\ RaIdle
    /\ GenIdle
    /\ ClInit
    /\ PipeIdle
    /\ StageIdle
    /\ IcaIdle
    /\ DetIdle
    /\ PageIdle
    /\ GardenIdle

CalculateBandPowers ==
    /\ spCall.pc = "called"
    /\ spCall.fn = "calculateBandPowers"
    /\ spResult' = [spResult EXCEPT
                       !.bandPowers = calculateBandPowers(spCall.signal, spCall.sampleRate)]
    /\ spCall' = [spCall EXCEPT !.pc = "returned"]
    /\ UNCHANGED <<raVars, genVars, clVars, pipe, stage, ica, appVars>>

RuleBasedClassification ==
    /\ spCall.pc = "called"
    /\ spCall.fn = "ruleBasedClassification"
    /\ spResult' = [spResult EXCEPT
                       !.prediction =
                           ruleBasedClassification(spCall.signal, spCall.sampleRate)]
    /\ spCall' = [spCall EXCEPT !.pc = "returned"]
    /\ UNCHANGED <<raVars, genVars, clVars, pipe, stage, ica, appVars>>

NextSpectral == CalculateBandPowers \/ RuleBasedClassification

SpecSpectral == InitSpectral /\ [][NextSpectral]_vars

\* ------------------------------------------------------------------------
\* Claims about the spectral analyzer and the rule-based classifier
\* ------------------------------------------------------------------------
SpReturned(fn) == spCall.pc = "returned" /\ spCall.fn = fn

\* the sum of f[x] over x in S
RECURSIVE QSumOver(_, _)
QSumOver(S, f) ==
    IF S = {} THEN Zero
    ELSE LET x == CHOOSE x \in S : TRUE
         IN  QAdd(f[x], QSumOver(S \ {x}, f))

\* C2 as stated: for every input signal, all band powers zero included, the
\* rule-based classifier returns three probabilities that are each
\* non-negative and that sum to 1 within 1e-6.
C2_ProbabilitiesSumToOne ==
    SpReturned("ruleBasedClassification") =>
        LET p == spResult.prediction.probabilities
            sum == QAdd(QAdd(p.happy, p.neutral), p.sad)
        IN  /\ QGe(p.happy, Zero)
            /\ QGe(p.neutral, Zero)
            /\ QGe(p.sad, Zero)
            /\ QLe(QAbs(QSub(sum, QInt(1))), <<1, 1000000>>)

\* C9: each DFT bin counts toward at most one band, by frequency: delta
\* [0.5,4), theta [4,8), alpha [8,13), beta [13,30), gamma [30,45]; a band's
\* power is the mean squared magnitude of its bins, non-negative, and 0 when
\* no bin falls in the band.
C9_BandPowerIsMeanOfBins ==
    SpReturned("calculateBandPowers") =>
        LET signal == spCall.signal
            n == Len(signal)
            bins == 0..((n \div 2) - 1)
            freq(k) == QDiv(QInt(k * spCall.sampleRate), QInt(n))
            power == [k \in bins |-> DftPower(signal, k)]
            in(k, lo, hi) == QGe(freq(k), lo) /\ QLt(freq(k), hi)
            binsOf == [b \in Bands |->
                CASE b = "delta" -> {k \in bins : in(k, <<1, 2>>, QInt(4))}
                  [] b = "theta" -> {k \in bins : in(k, QInt(4), QInt(8))}
                  [] b = "alpha" -> {k \in bins : in(k, QInt(8), QInt(13))}
                  [] b = "beta" -> {k \in bins : in(k, QInt(13), QInt(30))}
                  [] b = "gamma" -> {k \in bins : QGe(freq(k), QInt(30))
                                                  /\ QLe(freq(k), QInt(45))}]
        IN  \A b \in Bands :
                /\ spResult.bandPowers[b] =
                       IF binsOf[b] = {} THEN Zero
                       ELSE QDiv(QSumOver(binsOf[b], power), QInt(Cardinality(binsOf[b])))
                /\ QGe(spResult.bandPowers[b], Zero)

\* a returned call on four samples at 180 Hz, whose bins lie at 0 Hz (no band)
\* and exactly at 45 Hz, with a non-zero gamma power
C9_GammaEdgeWitness ==
    /\ SpReturned("calculateBandPowers")
    /\ Len(spCall.signal) = 4
    /\ spCall.sampleRate = 180
    /\ spResult.bandPowers.gamma # Zero

\* ------------------------------------------------------------------------
\* The classifier module: trainModel and predictEmotion calls of its clients
\* ------------------------------------------------------------------------
\* signals given to predictEmotion
PredictSignals ==
    {<<Zero, Zero, Zero, Zero>>,
     <<QInt(1), Zero, QInt(-2), Zero>>,
     <<Zero, QInt(1), QInt(1), Zero, Zero, QInt(1)>>}

PredictRates == {16, 52, 256}

\* what the fitted or unfitted network may answer: a softmax output
ModelOutputs ==
    {[happy |-> h, neutral |-> n, sad |-> d] :
        <<h, n, d>> \in {<<<<1, 3>>, <<1, 3>>, <<1, 3>>>>,
                         <<<<1, 2>>, <<1, 2>>, Zero>>,
                         <<<<1, 2>>, Zero, <<1, 2>>>>,
                         <<Zero, <<1, 2>>, <<1, 2>>>>,
                         <<<<1, 2>>, <<1, 4>>, <<1, 4>>>>,
                         <<<<1, 4>>, <<1, 2>>, <<1, 4>>>>,
                         <<<<1, 4>>, <<1, 4>>, <<1, 2>>>>,
                         <<Zero, Zero, QInt(1)>>}}

ClState == [instances |-> instances, trainers |-> trainers]

InitClassifier ==
    /\ ClInit
    /\ PipeIdle
    /\ StageIdle
    /\ IcaIdle
    /\ DetIdle
    /\ PageIdle
    /\ GardenIdle
    /\ RaIdle
    /\ GenIdle
    /\ SpIdle

\* trainModel(signals) is called: if (!model) the call creates an instance
\* and suspends at the await; otherwise it goes on to model.fit at once.
TrainModelCall(t) ==
    /\ trainers[t].pc = "idle"
    /\ IF model = NullModel
       THEN /\ instances' = Append(instances, NewInstance)
            /\ trainers' = [trainers EXCEPT ![t].pc = "awaitCreate",
                                            ![t].created = Len(instances) + 1]
            /\ microtasks' = Append(microtasks, t)
       ELSE LET after == StartFit(ClState, t, model)
            IN  /\ instances' = after.instances
                /\ trainers' = after.trainers
                /\ UNCHANGED microtasks
    /\ UNCHANGED <<model, predResult, raVars, genVars, spVars, pipe, stage, ica, appVars>>

\* model = await createLSTMModel() resumes: the handle is assigned, the
\* training data prepared and model.fit started on the handle.
TrainModelResume ==
    /\ microtasks # <<>>
    /\ LET t == Head(microtasks)
           after == StartFit(ClState, t, trainers[t].created)
       IN  /\ model' = trainers[t].created
           /\ instances' = after.instances
           /\ trainers' = after.trainers
    /\ microtasks' = Tail(microtasks)
    /\ UNCHANGED <<predResult, raVars, genVars, spVars, pipe, stage, ica, appVars>>

\* await model.fit(...) resumes, after every pending microtask: the tensors
\* are disposed and the call returns the handle as it is now.
TrainModelFitDone(t) ==
    /\ trainers[t].pc = "fitting"
    /\ microtasks = <<>>
    /\ instances' = [instances EXCEPT ![trainers[t].target].fits = @ + 1,
                                      ![trainers[t].target].training = FALSE]
    /\ trainers' = [trainers EXCEPT ![t].pc = "returned", ![t].result = model]
    /\ UNCHANGED <<model, microtasks, predResult, raVars, genVars, spVars, pipe, stage, ica, appVars>>

\* predictEmotion(signal, sampleRate) with no model: the rule-based result
PredictEmotionRuleBased(signal, sampleRate) ==
    /\ model = NullModel
    /\ predResult' = [path |-> "rule", signal |-> signal, sampleRate |-> sampleRate,
                      fitted |-> FALSE,
                      prediction |-> ruleBasedClassification(signal, sampleRate)]
    /\ UNCHANGED <<model, instances, trainers, microtasks, raVars, genVars, spVars, pipe, stage, ica, appVars>>

\* predictEmotion(signal, sampleRate) with a model: model.predict answers
\* probs, and the largest of them is selected
PredictEmotionModel(signal, sampleRate, probs) ==
    /\ model # NullModel
    /\ predResult' = [path |-> "model", signal |-> signal, sampleRate |-> sampleRate,
                      fitted |-> \E i \in 1..Len(instances) : instances[i].fits > 0,
                      prediction |-> ModelSelect(probs)]
    /\ UNCHANGED <<model, instances, trainers, microtasks, raVars, genVars, spVars, pipe, stage, ica, appVars>>

NextClassifier ==
    \/ \E t \in 1..MaxTrainCalls : TrainModelCall(t)
    \/ TrainModelResume
    \/ \E t \in 1..MaxTrainCalls : TrainModelFitDone(t)
    \/ \E signal \in PredictSignals, sampleRate \in PredictRates :
           /\ ZeroPowerIsExact(signal, sampleRate)
           /\ PredictEmotionRuleBased(signal, sampleRate)
    \/ \E signal \in PredictSignals, sampleRate \in PredictRates, probs \in ModelOutputs :
           PredictEmotionModel(signal, sampleRate, probs)

SpecClassifier == InitClassifier /\ [][NextClassifier]_vars

\* ------------------------------------------------------------------------
\* Claims about predictEmotion and trainModel
\* ------------------------------------------------------------------------
\* C4 as stated: predictEmotion delegates to the trainable model only after
\* some trainModel call has completed its fit; before that it returns the
\* rule-based classification.
C4_DelegatesOnlyToFittedModel ==
    predResult.path = "model" => predResult.fitted

\* C5 as stated: once the module-level model is non-null, no trainModel or
\* predictEmotion call replaces the handle, and none changes the fitted state
\* of the model it refers to once that model has been fit.
C5_HandleLoadedOnce ==
    [][model # NullModel =>
          /\ model' = model
          /\ instances[model].fits > 0 =>
                 instances'[model].fits = instances[model].fits]_vars

\* C6 as stated: every EmotionPrediction predictEmotion returns, on either
\* path, has emotion in {happy, neutral, sad}, confidence equal to the
\* largest of the three probabilities, and emotion naming a class whose
\* probability equals that maximum.
C6_ConfidenceIsMaximum ==
    predResult.path # "none" =>
        LET r == predResult.prediction
            p == r.probabilities
        IN  /\ r.emotion \in {"happy", "neutral", "sad"}
            /\ \E e \in {"happy", "neutral", "sad"} : QEq(r.confidence, p[e])
            /\ \A e \in {"happy", "neutral", "sad"} : QGe(r.confidence, p[e])
            /\ QEq(p[r.emotion], r.confidence)

\* ------------------------------------------------------------------------
\* A silent signal through the stages, in the order the page runs them:
\* preprocessSignal, removeArtifactsSimple, calculateBandPowers, the
\* normalized feature sequence, predictEmotion
\* ------------------------------------------------------------------------
\* generateCustomSignal with every weight and level at 0 yields zeros only
ZeroSignal(n) == [i \in 1..n |-> Zero]

PipeLengths == 1..(MaxLen + 1)

\* the filter controls: band-pass low and high cutoff, notch frequency,
\* artifact threshold
BandpassLows == {<<1, 10>>, <<1, 2>>}
BandpassHighs == {QInt(45), QInt(100)}
NotchFreqs == {50, 60}
IcaThresholds == {QInt(1), QInt(3)}

InitPipeline ==
    /\ pipe \in [pc : {"loaded"},
                 signal : {ZeroSignal(n) : n \in PipeLengths},
                 sampleRate : {DefaultSampleRate},
                 bandpassLow : BandpassLows,
                 bandpassHigh : BandpassHighs,
                 notchFreq : NotchFreqs,
                 icaThreshold : IcaThresholds,
                 filtered : {<<>>},
                 cleaned : {NoResult},
                 bandPowers : {NoBandPowers},
                 features : {<<>>}]
    /\ RaIdle
    /\ GenIdle
    /\ SpIdle
    /\ ClInit
    /\ StageIdle
    /\ IcaIdle
    /\ DetIdle
    /\ PageIdle
    /\ GardenIdle

PipePreprocessSignal ==
    /\ pipe.pc = "loaded"
    /\ pipe' = [pipe EXCEPT
                   !.pc = "filtered",
                   !.filtered = preprocessSignal(pipe.signal, pipe.sampleRate,
                                                 pipe.bandpassLow, pipe.bandpassHigh,
                                                 pipe.notchFreq).final]
    /\ UNCHANGED <<raVars, genVars, spVars, clVars, stage, ica, appVars>>

PipeRemoveArtifactsSimple ==
    /\ pipe.pc = "filtered"
    /\ pipe' = [pipe EXCEPT
                   !.pc = "cleaned",
                   !.cleaned = removeArtifactsSimple(pipe.filtered, pipe.icaThreshold)]
    /\ UNCHANGED <<raVars, genVars, spVars, clVars, stage, ica, appVars>>

PipeCalculateBandPowers ==
    /\ pipe.pc = "cleaned"
    /\ pipe' = [pipe EXCEPT
                   !.pc = "analyzed",
                   !.bandPowers = calculateBandPowers(pipe.cleaned.cleanSignal,
                                                      pipe.sampleRate)]
    /\ UNCHANGED <<raVars, genVars, spVars, clVars, stage, ica, appVars>>

\* normalizeFeatures(extractFeatures(signal, sampleRate)), as trainModel and
\* predictEmotion build the sequence they hand to the network
PipeExtractFeatures ==
    /\ pipe.pc = "analyzed"
    /\ pipe' = [pipe EXCEPT
                   !.pc = "featured",
                   !.features = normalizeFeatures(
                       extractFeatures(pipe.cleaned.cleanSignal, pipe.sampleRate,
                                       DefaultWindowSize, DefaultSequenceLength))]
    /\ UNCHANGED <<raVars, genVars, spVars, clVars, stage, ica, appVars>>

\* predictEmotion(processed, sampleRate) with no model: the rule-based result
PipePredictEmotion ==
    /\ pipe.pc = "featured"
    /\ model = NullModel
    /\ predResult' = [path |-> "rule", signal |-> pipe.cleaned.cleanSignal,
                      sampleRate |-> pipe.sampleRate, fitted |-> FALSE,
                      prediction |-> ruleBasedClassification(pipe.cleaned.cleanSignal,
                                                             pipe.sampleRate)]
    /\ pipe' = [pipe EXCEPT !.pc = "predicted"]
    /\ UNCHANGED <<model, instances, trainers, microtasks, raVars, genVars,
                 spVars, stage, ica, appVars>>

NextPipeline ==
    \/ PipePreprocessSignal
    \/ PipeRemoveArtifactsSimple
    \/ PipeCalculateBandPowers
    \/ PipeExtractFeatures
    \/ PipePredictEmotion

SpecPipeline == InitPipeline /\ [][NextPipeline]_vars

\* ------------------------------------------------------------------------
\* Claims about the stages on a silent signal
\* ------------------------------------------------------------------------
AllFinite(values) == \A i \in 1..Len(values) : IsFinite(values[i])

\* C3 as stated: an all-zero signal taken through the filters, the
\* statistical artifact removal, the band powers, the feature extraction and
\* normalization and the rule-based predictEmotion never yields NaN or
\* Infinity in what a stage returns: the band powers are all zero and the
\* prediction has the uniform probabilities 1/3 with confidence 1/3.
C3_SilentSignalIsWellDefined ==
    /\ pipe.pc \in {"filtered", "cleaned", "analyzed", "featured", "predicted"} =>
           AllFinite(pipe.filtered)
    /\ pipe.pc \in {"cleaned", "analyzed", "featured", "predicted"} =>
           /\ AllFinite(pipe.cleaned.cleanSignal)
           /\ AllFinite(pipe.cleaned.removedArtifacts)
    /\ pipe.pc \in {"analyzed", "featured", "predicted"} =>
           \A b \in Bands : pipe.bandPowers[b] = Zero
    /\ pipe.pc \in {"featured", "predicted"} =>
           \A r \in 1..Len(pipe.features) : AllFinite(pipe.features[r])
    /\ pipe.pc = "predicted" =>
           LET r == predResult.prediction
           IN  /\ r.confidence = <<1, 3>>
               /\ \A e \in {"happy", "neutral", "sad"} : r.probabilities[e] = <<1, 3>>

\* ------------------------------------------------------------------------
\* Calls at the boundary: parameters outside their domain
\* ------------------------------------------------------------------------
\* what a call that has not returned has produced
NoOutput == [none |-> TRUE]

\* one call of a library function: the function, its arguments, and, once it
\* has returned, how it ended and what it returned
StageCall(fn, signal, low, high, notchFreq, sampleRate, duration) ==
    [pc |-> "called", fn |-> fn, signal |-> signal, low |-> low, high |-> high,
     notchFreq |-> notchFreq, sampleRate |-> sampleRate, duration |-> duration,
     outcome |-> "pending", output |-> NoOutput, input |-> signal]

\* the call returns normally with this value: the functions have no throw
\* statement and no error result
StageReturn(output) ==
    stage' = [stage EXCEPT !.pc = "returned", !.outcome = "returned",
                           !.output = output]

NegativeDurations == {QInt(-10), QInt(-1), Norm(-1, 2)}

\* at or above the Nyquist frequency of the 256 Hz the page samples at
CutoffsAboveNyquist == {QInt(192), QInt(256)}

\* signals short enough for the exact filter outputs to stay within the
\* integers of the model
BoundarySignals ==
    {<<QInt(0)>>, <<QInt(1)>>, <<QInt(-3)>>, <<QInt(1), QInt(0)>>,
     <<QInt(0), QInt(1)>>, <<QInt(1), QInt(-3)>>, <<QInt(-3), QInt(1)>>}

Generators == {"generateHappySignal", "generateNeutralSignal", "generateSadSignal"}

Filters == {"lowPassFilter", "highPassFilter", "bandPassFilter", "notchFilter"}

\* the calls with a negative duration
NegativeDurationCalls ==
    {StageCall(fn, <<>>, Zero, Zero, 0, sampleRate, duration) :
        fn \in Generators, sampleRate \in {1, DefaultSampleRate},
        duration \in NegativeDurations}

\* the filter calls with a cutoff at or above sampleRate / 2
AboveNyquistCalls ==
    {StageCall(fn, signal, cutoff, cutoff, 192, DefaultSampleRate, Zero) :
        fn \in Filters \ {"bandPassFilter"}, signal \in BoundarySignals,
        cutoff \in CutoffsAboveNyquist}
    \cup {StageCall("bandPassFilter", ZeroSignal(n), low, high, 0, DefaultSampleRate,
                     Zero) :
        n \in PipeLengths, low \in BandpassLows, high \in CutoffsAboveNyquist}

\* the calls with an empty signal
EmptySignalCalls ==
    {StageCall(fn, <<>>, low, high, notchFreq, DefaultSampleRate, Zero) :
        fn \in Filters \cup {"removeArtifactsSimple", "predictEmotion"},
        low \in BandpassLows, high \in BandpassHighs, notchFreq \in NotchFreqs}

InitBoundary ==
    /\ stage \in NegativeDurationCalls \cup AboveNyquistCalls \cup EmptySignalCalls
    /\ RaIdle
    /\ GenIdle
    /\ SpIdle
    /\ ClInit
    /\ PipeIdle
    /\ IcaIdle
    /\ DetIdle
    /\ PageIdle
    /\ GardenIdle

GeneratorOf(fn, duration, sampleRate) ==
    CASE fn = "generateHappySignal" -> generateHappySignal(duration, sampleRate)
      [] fn = "generateNeutralSignal" -> generateNeutralSignal(duration, sampleRate)
      [] fn = "generateSadSignal" -> generateSadSignal(duration, sampleRate)

FilterOf(fn, signal, low, high, notchFreq, sampleRate) ==
    CASE fn = "lowPassFilter" -> lowPassFilter(signal, high, sampleRate)
      [] fn = "highPassFilter" -> highPassFilter(signal, low, sampleRate)
      [] fn = "bandPassFilter" -> bandPassFilter(signal, low, high, sampleRate)
      [] fn = "notchFilter" -> notchFilter(signal, notchFreq, sampleRate)

BoundaryGenerate ==
    /\ stage.pc = "called"
    /\ stage.fn \in Generators
    /\ StageReturn(GeneratorOf(stage.fn, stage.duration, stage.sampleRate))
    /\ UNCHANGED <<raVars, genVars, spVars, clVars, pipe, ica, appVars>>

BoundaryFilter ==
    /\ stage.pc = "called"
    /\ stage.fn \in Filters
    /\ StageReturn(FilterOf(stage.fn, stage.signal, stage.low, stage.high,
                            stage.notchFreq, stage.sampleRate))
    /\ UNCHANGED <<raVars, genVars, spVars, clVars, pipe, ica, appVars>>

BoundaryRemoveArtifactsSimple ==
    /\ stage.pc = "called"
    /\ stage.fn = "removeArtifactsSimple"
    /\ StageReturn(removeArtifactsSimple(stage.signal, QInt(3)))
    /\ UNCHANGED <<raVars, genVars, spVars, clVars, pipe, ica, appVars>>

\* no model has been trained: if (!model) return ruleBasedClassification(..)
BoundaryPredictEmotion ==
    /\ stage.pc = "called"
    /\ stage.fn = "predictEmotion"
    /\ model = NullModel
    /\ StageReturn(ruleBasedClassification(stage.signal, stage.sampleRate))
    /\ UNCHANGED <<raVars, genVars, spVars, clVars, pipe, ica, appVars>>

NextBoundary ==
    \/ BoundaryGenerate
    \/ BoundaryFilter
    \/ BoundaryRemoveArtifactsSimple
    \/ BoundaryPredictEmotion

SpecBoundary == InitBoundary /\ [][NextBoundary]_vars

\* ------------------------------------------------------------------------
\* Claims about invalid parameters
\* ------------------------------------------------------------------------
StageReturned == stage.pc = "returned"

\* C11: a call with a parameter outside its domain (a negative duration, a
\* cutoff at or above the Nyquist frequency, an empty signal) ends with the
\* outcome InvalidParameter and has computed no output.
C11_InvalidParameterRejected ==
    StageReturned =>
        /\ stage.outcome = "InvalidParameter"
        /\ stage.output = NoOutput

\* the poles of 1 / (1 + a1 z^-1 + a2 z^-2) lie inside the unit circle iff
\* |a2| < 1 and |a1| < 1 + a2
Stable(a) ==
    /\ QLt(QAbs(a[3]), QInt(1))
    /\ QLt(QAbs(a[2]), QAdd(QInt(1), a[3]))

\* the coefficients a filter call hands to filtfilt
CoeffsOf(fn, high, notchFreq, sampleRate) ==
    CASE fn = "lowPassFilter" -> butterworthCoeffs(high, sampleRate)
      [] fn = "notchFilter" -> notchCoeffs(notchFreq, sampleRate)

\* a returned call of lowPassFilter or notchFilter whose coefficients have a
\* pole on or outside the unit circle
UnstableCall ==
    /\ StageReturned
    /\ stage.fn \in {"lowPassFilter", "notchFilter"}
    /\ ~Stable(CoeffsOf(stage.fn, stage.high, stage.notchFreq, stage.sampleRate).a)

\* C12: a filter whose coefficients are unstable returns its input signal
\* unfiltered and signals FilterUnstable.
C12_UnstablePassesThrough ==
    UnstableCall =>
        /\ stage.output = stage.signal
        /\ stage.outcome = "FilterUnstable"

\* an unstable call whose output is not its input
C12_Amplified == UnstableCall /\ stage.output # stage.signal

\* the coefficients of the cutoffs below the Nyquist frequency are stable
ValidCoeffsStable ==
    /\ \A cutoff \in BandpassLows \cup BandpassHighs :
          Stable(butterworthCoeffs(cutoff, DefaultSampleRate).a)
    /\ \A notchFreq \in NotchFreqs : Stable(notchCoeffs(notchFreq, DefaultSampleRate).a)

\* ------------------------------------------------------------------------
\* lib/ica-processing: removeArtifactsICA.  Exact arithmetic.  The matrix
\* decompositions are ml-matrix's; the model covers the inputs on which their
\* results do not matter: signals all of whose samples are equal.
\* ------------------------------------------------------------------------
\* an array, as the tuple of its elements
Array(f) == f \o <<>>

maxIter == 100
tolerance == Norm(1, 1000000)

\* const delays = [0, 5, 10, 15]
Delays == <<0, 5, 10, 15>>

\* Math.sqrt, exact on the squares of rationals and truncated to the
\* denominator elsewhere
ISqrt(n) == CHOOSE k \in 0..n : k * k <= n /\ (k + 1) * (k + 1) > n

QSqrt(a) ==
    IF IsNaN(a) \/ QLt(a, Zero) THEN NaN
    ELSE IF ~IsFinite(a) THEN a
    ELSE IF ISqrt(a[1]) * ISqrt(a[1]) = a[1] /\ ISqrt(a[2]) * ISqrt(a[2]) = a[2]
         THEN Norm(ISqrt(a[1]), ISqrt(a[2]))
    ELSE Norm(ISqrt(a[1] * a[2]), a[2])

\* Math.tanh, at the arguments a signal of equal samples leads to
MathTanh(u) ==
    CASE IsNaN(u) -> NaN
      [] QEq(u, Zero) -> Zero

g(u) == MathTanh(u)
gPrime(u) == QSub(QInt(1), QMul(MathTanh(u), MathTanh(u)))

\* s.reduce((a, b) => a + b, 0)
RECURSIVE QSum(_)
QSum(s) == IF s = <<>> THEN Zero ELSE QAdd(QSum(SubSeq(s, 1, Len(s) - 1)), s[Len(s)])

\* u.reduce((sum, v, i) => sum + v * w[i], 0)
Dot(u, w) == QSum(Array([i \in 1..Len(u) |-> QMul(u[i], w[i])]))

\* x || 1
OrOne(x) == IF IsNaN(x) \/ QEq(x, Zero) THEN QInt(1) ELSE x

\* [...signal.slice(delay), ...signal.slice(0, delay)]
Delayed(signal, delay) == Slice(signal, delay, Len(signal)) \o Slice(signal, 0, delay)

DelayedSignals(signal, numComponents) ==
    Array([i \in 1..numComponents |-> Delayed(signal, Delays[i])])

ChannelMean(channel) == QDiv(QSum(channel), QInt(Len(channel)))

centerData(data) ==
    [centered |-> Array([i \in 1..Len(data) |->
                            Array([j \in 1..Len(data[i]) |->
                                      QSub(data[i][j], ChannelMean(data[i]))])]),
     means |-> Array([i \in 1..Len(data) |-> ChannelMean(data[i])])]

\* dataMatrix.mmul(dataMatrix.transpose()).div(numSamples)
Covariance(data) ==
    Array([i \in 1..Len(data) |->
              Array([j \in 1..Len(data) |->
                        QDiv(Dot(data[i], data[j]), QInt(Len(data[1])))])])

ZeroMatrix(rows, columns) ==
    Array([i \in 1..rows |-> Array([j \in 1..columns |-> Zero])])

\* With a covariance of zeros every eigenvalue is 0 and is clamped to 1e-10:
\* D = 1e5 I, the whitening matrix D V^T is finite whatever the eigenvectors V,
\* and whiteningMatrix.mmul(dataMatrix) is a matrix of zeros.
whitenData(data) ==
    CASE Covariance(data) = ZeroMatrix(Len(data), Len(data)) ->
             ZeroMatrix(Len(data), Len(data[1]))

\* wX[j] = sum over i of w[i] * X[i][j]
WX(w, X) ==
    Array([j \in 1..Len(X[1]) |->
              QSum(Array([i \in 1..Len(X) |-> QMul(w[i], X[i][j])]))])

\* term1[i] = (sum over j of X[i][j] * g(wX[j])) / numSamples
Term1(X, wX) ==
    Array([i \in 1..Len(X) |->
              QDiv(QSum(Array([j \in 1..Len(wX) |-> QMul(X[i][j], g(wX[j]))])),
                   QInt(Len(wX)))])

\* term2Scalar = (sum over j of gPrime(wX[j])) / numSamples
Term2Scalar(wX) ==
    QDiv(QSum(Array([j \in 1..Len(wX) |-> gPrime(wX[j])])), QInt(Len(wX)))

\* wNew[i] = term1[i] - term2Scalar * w[i]
WNewOf(w, term1, term2Scalar) ==
    Array([i \in 1..Len(w) |-> QSub(term1[i], QMul(term2Scalar, w[i]))])

VectorNorm(v) == QSqrt(Dot(v, v))

\* v / (norm || 1)
DivideBy(v, norm) == Array([i \in 1..Len(v) |-> QDiv(v[i], norm)])

NormalizeOrOne(v) == DivideBy(v, OrOne(VectorNorm(v)))

fastICAIteration(w, X) ==
    NormalizeOrOne(WNewOf(w, Term1(X, WX(w, X)), Term2Scalar(WX(w, X))))

\* wNew[i] -= dot * Wp[i]
Subtract(wNew, dot, Wp) ==
    Array([i \in 1..Len(wNew) |-> QSub(wNew[i], QMul(dot, Wp[i]))])

\* for (p = 0; p < c; p++) { dot = <wNew, W[p]>; wNew[i] -= dot * W[p][i] }
RECURSIVE Decorrelate(_, _, _, _)
Decorrelate(wNew, W, p, c) ==
    IF p >= c THEN wNew
    ELSE Decorrelate(Subtract(wNew, Dot(wNew, W[p + 1]), W[p + 1]), W, p + 1, c)

\* one pass of the loop body up to the normalization: the next estimate
NextEstimate(w, X, W, c) == NormalizeOrOne(Decorrelate(fastICAIteration(w, X), W, 0, c))

\* diff = Math.abs(1 - Math.abs(<w, wNew>))
ConvergenceDiff(w, wNew) == QAbs(QSub(QInt(1), QAbs(Dot(w, wNew))))

\* iter <= maxIter in place of iter < maxIter
LoopContinuesInclusive(iter) == iter <= maxIter

\* the loop condition: iter < maxIter
LoopContinues(iter) == iter < maxIter

\* if (diff < tolerance) break
Converged(diff) == QLt(diff, tolerance)

\* wMatrix.mmul(whitenedMatrix)
MatMul(A, B) ==
    Array([i \in 1..Len(A) |->
              Array([j \in 1..Len(B[1]) |->
                        QSum(Array([k \in 1..Len(B) |-> QMul(A[i][k], B[k][j])]))])])

SeqMax(s) == CHOOSE x \in {s[i] : i \in 1..Len(s)} :
                 \A i \in 1..Len(s) : QGe(x, s[i])

CompMean(comp) == QDiv(QSum(comp), QInt(Len(comp)))

CompVariance(comp, mean) ==
    QDiv(QSum(Array([j \in 1..Len(comp) |->
                        QMul(QSub(comp[j], mean), QSub(comp[j], mean))])),
         QInt(Len(comp)))

Pow4(x) == QMul(QMul(x, x), QMul(x, x))

\* kurtosis = (sum of ((v - mean) / std)^4) / n - 3
Kurtosis(comp, mean, std) ==
    QSub(QDiv(QSum(Array([j \in 1..Len(comp) |->
                             Pow4(QDiv(QSub(comp[j], mean), std))])),
              QInt(Len(comp))),
         QInt(3))

\* Math.max(...comp.map(Math.abs))
MaxAmp(comp) == SeqMax(Array([j \in 1..Len(comp) |-> QAbs(comp[j])]))

\* the two thresholds taken as inclusive
IsArtifactOverInclusive(comp, mean, std) ==
    \/ QGe(Kurtosis(comp, mean, std), QInt(5))
    \/ QGe(MaxAmp(comp), QMul(std, QInt(6)))

\* kurtosis > 5 || maxAmp > std * 6
IsArtifactOver(comp, mean, std) ==
    \/ QGt(Kurtosis(comp, mean, std), QInt(5))
    \/ QGt(MaxAmp(comp), QMul(std, QInt(6)))

IsArtifact(comp) ==
    IsArtifactOver(comp, CompMean(comp), QSqrt(CompVariance(comp, CompMean(comp))))

\* the 0-based indices of the artifact components, in increasing order
RECURSIVE ArtifactsAmong(_, _)
ArtifactsAmong(components, m) ==
    IF m = 0 THEN <<>>
    ELSE IF IsArtifact(components[m])
         THEN Append(ArtifactsAmong(components, m - 1), m - 1)
    ELSE ArtifactsAmong(components, m - 1)

detectArtifacts(components) == ArtifactsAmong(components, Len(components))

\* artifactIndices.includes(i) ? new Array(comp.length).fill(0) : comp
CleanComponents(components, artifactIndices) ==
    Array([i \in 1..Len(components) |->
              IF \E k \in 1..Len(artifactIndices) : artifactIndices[k] = i - 1
              THEN Array([j \in 1..Len(components[i]) |-> Zero])
              ELSE components[i]])

\* whiteningMatrix.pseudoInverse().mmul(wMatrix.pseudoInverse().mmul(clean)):
\* a product of finite matrices with a matrix of zeros
Reconstruct(cleanComponents) ==
    CASE cleanComponents = ZeroMatrix(Len(cleanComponents), Len(cleanComponents[1])) ->
             cleanComponents

ICAResultOf(signal, cleanSignal, components, artifactIndices) ==
    [cleanSignal |-> cleanSignal,
     components |-> components,
     removedArtifacts |->
         Array([i \in 1..Len(signal) |-> QSub(signal[i], cleanSignal[i])]),
     artifactIndices |-> artifactIndices]

\* cleanSignal = reconstructed[0].map(v => v + means[0])
AddMean(row, mean) == Array([j \in 1..Len(row) |-> QAdd(row[j], mean)])

UnmixWith(signal, means, components, artifactIndices) ==
    ICAResultOf(signal,
                AddMean(Reconstruct(CleanComponents(components, artifactIndices))[1],
                        means[1]),
                components, artifactIndices)

\* the part of removeArtifactsICA after the FastICA iterations
Unmix(signal, means, components) ==
    UnmixWith(signal, means, components, detectArtifacts(components))

\* the draws Math.random() - 0.5 of one row of W: vectors of norm 2/5 with one
\* or two non-zero entries
RandomRows(n) ==
    {Array([i \in 1..n |-> IF i = k THEN s ELSE Zero]) :
        k \in 1..n, s \in {Norm(2, 5), Norm(-2, 5)}}
    \cup {Array([i \in 1..n |-> IF i = kl[1] THEN Norm(6, 25)
                                ELSE IF i = kl[2] THEN Norm(8, 25) ELSE Zero]) :
            kl \in {p \in (1..n) \X (1..n) : p[1] # p[2]}}

\* W.push(w.map(v => v / norm))
InitRow(w) == DivideBy(w, VectorNorm(w))

\* the estimate the loop for component c ends with, from iteration iter on,
\* wNew being the next estimate.  An estimate that repeats without having
\* converged repeats up to the cap: the passes are not unfolded.
RECURSIVE IcaLoopWith(_, _, _, _, _, _)
IcaLoopWith(w, wNew, X, W, c, iter) ==
    IF ~LoopContinues(iter) THEN w
    ELSE IF Converged(ConvergenceDiff(w, wNew)) \/ wNew = w THEN wNew
    ELSE IcaLoopWith(wNew, NextEstimate(wNew, X, W, c), X, W, c, iter + 1)

IcaLoop(w, X, W, c, iter) == IcaLoopWith(w, NextEstimate(w, X, W, c), X, W, c, iter)

\* W after the loops for the components c, c+1, ..
RECURSIVE IcaComponents(_, _, _)
IcaComponents(W, X, c) ==
    IF c >= Len(W) THEN W
    ELSE IcaComponents([W EXCEPT ![c + 1] = IcaLoop(W[c + 1], X, W, c, 0)], X, c + 1)

IcaOfCentred(signal, centred, W) ==
    Unmix(signal, centred.means,
          MatMul(IcaComponents(W, whitenData(centred.centered), 0),
                 whitenData(centred.centered)))

\* rows: the draws Math.random() - 0.5, row by row
removeArtifactsICA(signal, numComponents, rows) ==
    IcaOfCentred(signal, centerData(DelayedSignals(signal, numComponents)),
                 Array([i \in 1..numComponents |-> InitRow(rows[i])]))

\* ------------------------------------------------------------------------
\* removeArtifactsICA, step by step
\* ------------------------------------------------------------------------
ConstantSignals ==
    {Array([i \in 1..n |-> v]) : n \in 1..MaxLen, v \in {QInt(0), QInt(1), QInt(-3)}}

ComponentCounts == {1, 2}

InitICA ==
    /\ ica \in [pc : {"called"}, signal : ConstantSignals,
                numComponents : ComponentCounts,
                means : {<<>>}, whitened : {<<>>}, W : {<<>>}, c : {0}, w : {<<>>},
                iter : {0}, diff : {Zero}, fallback : {FALSE}, result : {NoResult}]
    /\ RaIdle
    /\ GenIdle
    /\ SpIdle
    /\ ClInit
    /\ PipeIdle
    /\ StageIdle
    /\ DetIdle
    /\ PageIdle
    /\ GardenIdle

\* the delayed pseudo-channels, centerData, whitenData and the random W
IcaStart ==
    /\ ica.pc = "called"
    /\ \E rows \in [1..ica.numComponents -> RandomRows(ica.numComponents)] :
          LET centred == centerData(DelayedSignals(ica.signal, ica.numComponents))
              W == Array([i \in 1..ica.numComponents |-> InitRow(rows[i])])
          IN  ica' = [ica EXCEPT !.pc = "iterating",
                                 !.means = centred.means,
                                 !.whitened = whitenData(centred.centered),
                                 !.W = W, !.c = 0, !.w = W[1], !.iter = 0]
    /\ UNCHANGED <<raVars, genVars, spVars, clVars, pipe, stage, appVars>>

\* one pass of the loop body for component c
IcaIterate ==
    /\ ica.pc = "iterating"
    /\ LoopContinues(ica.iter)
    /\ LET wNew == NextEstimate(ica.w, ica.whitened, ica.W, ica.c)
           diff == ConvergenceDiff(ica.w, wNew)
       IN  ica' = [ica EXCEPT !.w = wNew, !.diff = diff, !.iter = ica.iter + 1,
                              !.pc = IF Converged(diff) THEN "converged"
                                     ELSE "iterating"]
    /\ UNCHANGED <<raVars, genVars, spVars, clVars, pipe, stage, appVars>>

\* the loop is left, by break or by its condition: W[c] = w, next component
IcaAccept ==
    /\ \/ ica.pc = "converged"
       \/ ica.pc = "iterating" /\ ~LoopContinues(ica.iter)
    /\ LET W == [ica.W EXCEPT ![ica.c + 1] = ica.w]
       IN  IF ica.c + 1 < ica.numComponents
           THEN ica' = [ica EXCEPT !.W = W, !.c = ica.c + 1, !.w = W[ica.c + 2],
                                   !.iter = 0, !.pc = "iterating"]
           ELSE ica' = [ica EXCEPT !.W = W, !.c = ica.c + 1, !.pc = "unmixed"]
    /\ UNCHANGED <<raVars, genVars, spVars, clVars, pipe, stage, appVars>>

\* components, detectArtifacts, reconstruction, return
IcaFinish ==
    /\ ica.pc = "unmixed"
    /\ ica' = [ica EXCEPT !.pc = "returned",
                          !.result = Unmix(ica.signal, ica.means,
                                           MatMul(ica.W, ica.whitened))]
    /\ UNCHANGED <<raVars, genVars, spVars, clVars, pipe, stage, appVars>>

NextICA == IcaStart \/ IcaIterate \/ IcaAccept \/ IcaFinish

SpecICA == InitICA /\ [][NextICA]_vars

\* ------------------------------------------------------------------------
\* Claims about removeArtifactsICA
\* ------------------------------------------------------------------------
IcaReturned == ica.pc = "returned"

\* C13: on a degenerate input (a constant or all-zero signal) removeArtifactsICA
\* detects the degeneracy and returns what removeArtifactsSimple returns on
\* that input, reporting the fallback, instead of whitening.
C13_DegenerateFallsBack ==
    IcaReturned =>
        /\ ica.fallback
        /\ ica.result = removeArtifactsSimple(ica.signal, QInt(3))

\* the steps left at most: a number every step of a call decreases
IcaRank(r) ==
    CASE r.pc = "called" -> (r.numComponents + 1) * (maxIter + 3)
      [] r.pc = "iterating" ->
             (r.numComponents - r.c) * (maxIter + 3) + (maxIter - r.iter) + 2
      [] r.pc = "converged" -> (r.numComponents - r.c) * (maxIter + 3) + 1
      [] r.pc = "unmixed" -> 1
      [] r.pc = "returned" -> 0

\* the loop is left for component c with the estimate w: W[c] = w
AcceptedStep ==
    /\ ica'.c = ica.c + 1
    /\ ica'.W[ica.c + 1] = ica.w
    /\ ica'.pc \in {"iterating", "unmixed"}

\* C20: removeArtifactsICA terminates.  For each component the fixed-point
\* loop makes at most 100 iterations, it is left as soon as
\* |1 - |<w_old, w_new>|| < 1e-6, and when the 100th iteration has not
\* converged the current estimate is accepted as the component: every step of
\* a call decreases the number of steps left.
C20_IterationsBounded ==
    [][/\ ica'.iter <= maxIter
       /\ IcaRank(ica') >= 0 /\ IcaRank(ica') < IcaRank(ica)
       /\ (ica.pc = "iterating" /\ ica'.iter = ica.iter + 1) =>
              /\ ica.iter < maxIter
              /\ ica'.diff = ConvergenceDiff(ica.w, ica'.w)
              /\ (ica'.pc = "converged") <=> QLt(ica'.diff, tolerance)
       /\ ica.pc = "converged" => AcceptedStep
       /\ (ica.pc = "iterating" /\ ica.iter = maxIter) => AcceptedStep]_vars

\* the 100th iteration of a component has not converged, and the call goes on
\* to return
C20_Witness ==
    /\ ica.pc = "iterating"
    /\ ica.iter = maxIter
    /\ ~QLt(ica.diff, tolerance)

\* a component has converged before the cap
C20_EarlyStop == ica.pc = "converged" /\ ica.iter < maxIter

\* ------------------------------------------------------------------------
\* The processing stages, one call each
\* ------------------------------------------------------------------------
\* the call returns this value and leaves the caller's array as given
StageReturnWith(output, input) ==
    stage' = [stage EXCEPT !.pc = "returned", !.outcome = "returned",
                           !.output = output, !.input = input]

\* the caller's signal after a filter call: the filters hand it to filtfilt
FilterInput(fn, signal, low, high, notchFreq, sampleRate) ==
    CASE fn = "lowPassFilter" ->
             FiltfiltRun(signal, butterworthCoeffs(high, sampleRate).b,
                         butterworthCoeffs(high, sampleRate).a).signal
      [] fn \in {"highPassFilter", "bandPassFilter", "preprocessSignal"} ->
             FiltfiltRun(signal, butterworthCoeffs(low, sampleRate).b,
                         butterworthCoeffs(low, sampleRate).a).signal
      [] fn = "notchFilter" ->
             FiltfiltRun(signal, notchCoeffs(notchFreq, sampleRate).b,
                         notchCoeffs(notchFreq, sampleRate).a).signal

\* signals short enough for the exact filter outputs to stay within the
\* integers of the model
ShortSignals == SeqsUpTo(SampleValues, 2) \ {<<>>}

\* one period of a sinusoid at a quarter of the sample rate: the samples of
\* A sin(2 pi f t) and of A cos(2 pi f t) at t = 0, 1/(4f), 2/(4f), 3/(4f)
QuarterRateSinusoids ==
    {<<Zero, A, Zero, QNeg(A)>> : A \in {QInt(1), QInt(-3)}}
    \cup {<<A, Zero, QNeg(A), Zero>> : A \in {QInt(1), QInt(-3)}}

\* sample rate and cutoff with tan(pi cutoff / sampleRate) = 1
ButterworthSettings == {<<256, QInt(64)>>, <<200, QInt(50)>>}

\* sample rate and notch frequency with sin(w0) = 1, cos(w0) = 0
NotchSettings == {<<200, 50>>, <<240, 60>>}

ButterworthCalls ==
    {StageCall(fn, signal, setting[2], setting[2], 0, setting[1], Zero) :
        fn \in {"lowPassFilter", "highPassFilter", "bandPassFilter"},
        signal \in ShortSignals, setting \in ButterworthSettings}

NotchCalls ==
    {StageCall("notchFilter", signal, Zero, Zero, setting[2], setting[1], Zero) :
        signal \in ShortSignals \cup QuarterRateSinusoids, setting \in NotchSettings}

PreprocessCalls ==
    {StageCall("preprocessSignal", ZeroSignal(n), low, high, notchFreq,
               DefaultSampleRate, Zero) :
        n \in PipeLengths, low \in BandpassLows, high \in BandpassHighs,
        notchFreq \in NotchFreqs}

ArtifactCalls ==
    {StageCall("removeArtifactsSimple", signal, Zero, Zero, 0, DefaultSampleRate, Zero)
        @@ [threshold |-> threshold] :
        signal \in SeqsUpTo(SampleValues, MaxLen) \ {<<>>}, threshold \in Thresholds}

BandPowerCalls ==
    {StageCall("calculateBandPowers", signal, Zero, Zero, 0, sampleRate, Zero) :
        signal \in [1..4 -> {QInt(-2), QInt(0), QInt(1)}], sampleRate \in {16, 40}}

\* signals shorter than, as long as and longer than the window
FeatureSignals == SeqsUpTo({QInt(-3), QInt(0), QInt(1)}, MaxLen + 2)

IcaCalls ==
    {StageCall("removeArtifactsICA", signal, Zero, Zero, 0, DefaultSampleRate, Zero)
        @@ [numComponents |-> numComponents] :
        signal \in ConstantSignals, numComponents \in ComponentCounts}

FeatureCalls ==
    {StageCall("extractFeatures", signal, Zero, Zero, 0, 16, Zero)
        @@ [windowSize |-> 4, sequenceLength |-> sequenceLength] :
        signal \in FeatureSignals, sequenceLength \in {2, 3}}

InitStages ==
    /\ stage \in ButterworthCalls \cup NotchCalls \cup PreprocessCalls
                 \cup ArtifactCalls \cup IcaCalls \cup BandPowerCalls \cup FeatureCalls
    /\ RaIdle
    /\ GenIdle
    /\ SpIdle
    /\ ClInit
    /\ PipeIdle
    /\ IcaIdle
    /\ DetIdle
    /\ PageIdle
    /\ GardenIdle

StageFilter ==
    /\ stage.pc = "called"
    /\ stage.fn \in Filters
    /\ StageReturnWith(FilterOf(stage.fn, stage.signal, stage.low, stage.high,
                                stage.notchFreq, stage.sampleRate),
                       FilterInput(stage.fn, stage.signal, stage.low, stage.high,
                                   stage.notchFreq, stage.sampleRate))
    /\ UNCHANGED <<raVars, genVars, spVars, clVars, pipe, ica, appVars>>

StagePreprocessSignal ==
    /\ stage.pc = "called"
    /\ stage.fn = "preprocessSignal"
    /\ StageReturnWith(preprocessSignal(stage.signal, stage.sampleRate, stage.low,
                                        stage.high, stage.notchFreq),
                       FilterInput(stage.fn, stage.signal, stage.low, stage.high,
                                   stage.notchFreq, stage.sampleRate))
    /\ UNCHANGED <<raVars, genVars, spVars, clVars, pipe, ica, appVars>>

\* removeArtifactsSimple reads signal and pushes onto arrays of its own
StageRemoveArtifactsSimple ==
    /\ stage.pc = "called"
    /\ stage.fn = "removeArtifactsSimple"
    /\ StageReturnWith(removeArtifactsSimple(stage.signal, stage.threshold),
                       stage.signal)
    /\ UNCHANGED <<raVars, genVars, spVars, clVars, pipe, ica, appVars>>

\* removeArtifactsICA reads signal through slice() and map() only
StageRemoveArtifactsICA ==
    /\ stage.pc = "called"
    /\ stage.fn = "removeArtifactsICA"
    /\ \E rows \in [1..stage.numComponents -> RandomRows(stage.numComponents)] :
          StageReturnWith(removeArtifactsICA(stage.signal, stage.numComponents, rows),
                          stage.signal)
    /\ UNCHANGED <<raVars, genVars, spVars, clVars, pipe, ica, appVars>>

\* calculateBandPowers and computeFFT read signal only
StageCalculateBandPowers ==
    /\ stage.pc = "called"
    /\ stage.fn = "calculateBandPowers"
    /\ StageReturnWith(calculateBandPowers(stage.signal, stage.sampleRate),
                       stage.signal)
    /\ UNCHANGED <<raVars, genVars, spVars, clVars, pipe, ica, appVars>>

StageExtractFeatures ==
    /\ stage.pc = "called"
    /\ stage.fn = "extractFeatures"
    /\ StageReturnWith(
           extractFeatures(stage.signal, stage.sampleRate, stage.windowSize,
                           stage.sequenceLength),
           SignalAfterWindows(stage.signal, stage.windowSize,
                              (Len(stage.signal) - stage.windowSize)
                                  \div (stage.sequenceLength - 1),
                              stage.sequenceLength))
    /\ UNCHANGED <<raVars, genVars, spVars, clVars, pipe, ica, appVars>>

NextStages ==
    \/ StageFilter
    \/ StagePreprocessSignal
    \/ StageRemoveArtifactsSimple
    \/ StageRemoveArtifactsICA
    \/ StageCalculateBandPowers
    \/ StageExtractFeatures

SpecStages == InitStages /\ [][NextStages]_vars

\* ------------------------------------------------------------------------
\* Claims about the stages
\* ------------------------------------------------------------------------
StageDone(fn) == stage.pc = "returned" /\ stage.fn = fn

\* stepSize = Math.floor((signal.length - windowSize) / (sequenceLength - 1))
StepOf(call) == (Len(call.signal) - call.windowSize) \div (call.sequenceLength - 1)

\* the windowSize samples from position start on, zeros outside the signal
SamplesFrom(signal, start, windowSize) ==
    [j \in 1..windowSize |->
        IF start + j >= 1 /\ start + j <= Len(signal) THEN signal[start + j]
        ELSE Zero] \o <<>>

\* C15: extractFeatures returns exactly sequenceLength vectors of exactly 5
\* band powers; vector i is computed from the windowSize samples that start at
\* sample i * step, step = floor((length - windowSize) / (sequenceLength - 1)),
\* so that the first window starts at sample 0 and the windows are evenly
\* spaced, and a window position past the end of the signal holds zero.
C15_WindowsAsSpecified ==
    StageDone("extractFeatures") =>
        /\ Len(stage.output) = stage.sequenceLength
        /\ \A i \in 1..Len(stage.output) :
              /\ Len(stage.output[i]) = 5
              /\ stage.output[i] =
                     FeatureRow(calculateBandPowers(
                         SamplesFrom(stage.signal, (i - 1) * StepOf(stage),
                                     stage.windowSize),
                         stage.sampleRate))

\* the same for the calls on a signal at least as long as the window
C15_HoldsOnLongSignals ==
    (StageDone("extractFeatures") /\ Len(stage.signal) >= stage.windowSize) =>
        /\ Len(stage.output) = stage.sequenceLength
        /\ \A i \in 1..Len(stage.output) :
              /\ Len(stage.output[i]) = 5
              /\ stage.output[i] =
                     FeatureRow(calculateBandPowers(
                         SamplesFrom(stage.signal, (i - 1) * StepOf(stage),
                                     stage.windowSize),
                         stage.sampleRate))

\* a/b < c/d for a, c >= 0 and b, d > 0, by comparing the continued fractions:
\* no product is formed
RECURSIVE FracLt(_, _, _, _)
FracLt(a, b, c, d) ==
    IF a \div b # c \div d THEN a \div b < c \div d
    ELSE IF a % b = 0 THEN c % d > 0
    ELSE IF c % d = 0 THEN FALSE
    ELSE FracLt(d, c % d, b, a % b)

\* r * r < 1/10 for a finite r = p/q: p/q < q/(10 p)
SquareBelowTenth(r) ==
    r[1] = 0 \/ FracLt(Abs(r[1]), r[2], r[2], 10 * Abs(r[1]))

\* the power of the bin k of filtered is less than 10% of that of the bin k of
\* signal.  Where both spectra are real at k, or both imaginary, the ratio of
\* the powers is the square of the ratio of the amplitudes.
PowerBelowTenth(filtered, signal, k) ==
    IF /\ DftReal2(filtered, k, Len(filtered)) = Zero
       /\ DftReal2(signal, k, Len(signal)) = Zero
       /\ DftImag2(signal, k, Len(signal)) # Zero
    THEN SquareBelowTenth(QDiv(DftImag2(filtered, k, Len(filtered)),
                               DftImag2(signal, k, Len(signal))))
    ELSE IF /\ DftImag2(filtered, k, Len(filtered)) = Zero
            /\ DftImag2(signal, k, Len(signal)) = Zero
            /\ DftReal2(signal, k, Len(signal)) # Zero
    THEN SquareBelowTenth(QDiv(DftReal2(filtered, k, Len(filtered)),
                               DftReal2(signal, k, Len(signal))))
    ELSE QLt(DftPower(filtered, k), QMul(Norm(1, 10), DftPower(signal, k)))

\* a returned notchFilter call on a pure sinusoid at the notch frequency: one
\* period, sampled at four times the frequency, which puts bin 1 at it
SinusoidNotched ==
    /\ StageDone("notchFilter")
    /\ stage.signal \in QuarterRateSinusoids
    /\ DftFrequency(4, stage.sampleRate, 1) = QInt(stage.notchFreq)

\* C16: for a pure sinusoid at f (50 or 60 Hz, below the Nyquist frequency),
\* the power at f of notchFilter(signal, f) is less than 10% of the power at f
\* of the unfiltered signal.
C16_NotchAttenuates ==
    SinusoidNotched => PowerBelowTenth(stage.output, stage.signal, 1)

\* C17: no stage changes its input: after a call of lowPassFilter,
\* highPassFilter, bandPassFilter, notchFilter, preprocessSignal,
\* removeArtifactsSimple, removeArtifactsICA, calculateBandPowers or
\* extractFeatures the caller's array has the length and the values it had
\* before the call.
C17_InputUnchanged ==
    StageReturned =>
        /\ Len(stage.input) = Len(stage.signal)
        /\ \A i \in 1..Len(stage.signal) : stage.input[i] = stage.signal[i]

\* a returned call that has written to an array: a filter whose output differs
\* from its input, or extractFeatures on a signal it had to pad
C17_Witness ==
    \/ /\ StageReturned
       /\ stage.fn \in Filters
       /\ stage.output # stage.signal
    \/ /\ StageDone("extractFeatures")
       /\ Len(stage.signal) < stage.windowSize

\* the IIR filter run forward over the signal, the output reversed, the
\* same filter run over it, and that output reversed back
ZeroPhase(signal, coeffs) ==
    Reverse(applyIIRFilter(Reverse(applyIIRFilter(signal, coeffs.b, coeffs.a)),
                           coeffs.b, coeffs.a))

\* the same filter run twice forward, with no reversal
TwiceForward(signal, coeffs) ==
    applyIIRFilter(applyIIRFilter(signal, coeffs.b, coeffs.a), coeffs.b, coeffs.a)

FilterReturned == StageReturned /\ stage.fn \in Filters

\* C18: every filter is applied zero-phase, in this order: the IIR filter runs
\* forward over the input, its output is reversed, the same filter runs over
\* the reversed sequence, and that output is reversed back; the result is as
\* long as the input.  (highPassFilter returns the input minus such a low-pass
\* output, bandPassFilter the low-pass of such a high-pass output.)
C18_ZeroPhaseOrder ==
    FilterReturned =>
        /\ Len(stage.output) = Len(stage.signal)
        /\ stage.fn = "lowPassFilter" =>
               stage.output =
                   ZeroPhase(stage.signal,
                             butterworthCoeffs(stage.high, stage.sampleRate))
        /\ stage.fn = "notchFilter" =>
               stage.output =
                   ZeroPhase(stage.signal,
                             notchCoeffs(stage.notchFreq, stage.sampleRate))
        /\ stage.fn = "highPassFilter" =>
               stage.output =
                   Complement(stage.signal,
                              ZeroPhase(stage.signal,
                                        butterworthCoeffs(stage.low, stage.sampleRate)))
        /\ stage.fn = "bandPassFilter" =>
               stage.output =
                   ZeroPhase(Complement(stage.signal,
                                        ZeroPhase(stage.signal,
                                                  butterworthCoeffs(stage.low,
                                                                    stage.sampleRate))),
                             butterworthCoeffs(stage.high, stage.sampleRate))

\* a returned low-pass call whose output depends on the reversals
C18_Witness ==
    /\ StageDone("lowPassFilter")
    /\ stage.output # TwiceForward(stage.signal,
                                   butterworthCoeffs(stage.high, stage.sampleRate))

\* the low-pass output of the call's signal, as floats
LowPassed(call) ==
    [i \in 1..Len(call.signal) |->
        Fl(lowPassFilter(call.signal, call.low, call.sampleRate)[i])] \o <<>>

\* C19 as stated: for every signal, cutoff, sample rate and index i,
\* highPassFilter(signal, cutoff)[i] + lowPassFilter(signal, cutoff)[i] equals
\* signal[i].
C19_ComplementExact ==
    StageDone("highPassFilter") =>
        \A i \in 1..Len(stage.signal) :
            QEq(FAdd(stage.output[i], LowPassed(stage)[i]), stage.signal[i])

\* C19 amended: highPassFilter(signal, cutoff)[i] is the rounded difference
\* signal[i] - lowPassFilter(signal, cutoff)[i], so that the sum of the two
\* outputs differs from signal[i] by at most the two rounding errors: half a
\* unit in the last place of the high-pass output plus half a unit of the sum.
C19_ComplementUpToRounding ==
    StageDone("highPassFilter") =>
        \A i \in 1..Len(stage.signal) :
            /\ stage.output[i] = FSub(stage.signal[i], LowPassed(stage)[i])
            /\ QLe(QMul(QInt(2),
                        QAbs(QSub(FAdd(stage.output[i], LowPassed(stage)[i]),
                                  stage.signal[i]))),
                   QAdd(Ulp(stage.output[i]),
                        Ulp(FAdd(stage.output[i], LowPassed(stage)[i]))))

\* a returned high-pass call with a sample at which the sum is exact and a
\* sample at which it is not
C19_Witness ==
    /\ StageDone("highPassFilter")
    /\ \E i \in 1..Len(stage.signal) :
          FAdd(stage.output[i], LowPassed(stage)[i]) = stage.signal[i]
    /\ \E i \in 1..Len(stage.signal) :
          FAdd(stage.output[i], LowPassed(stage)[i]) # stage.signal[i]

\* ------------------------------------------------------------------------
\* lib/ica-processing: the components of removeArtifactsICA between
\* wMatrix.mmul(whitenedMatrix) and the reconstruction
\* ------------------------------------------------------------------------
\* sample values of the two-sample components
PairValues == {QInt(-3), QInt(-2), Zero, QInt(2), QInt(3)}

\* ten-sample components: silence, one spike, a square wave
ZeroTen == Array([j \in 1..10 |-> Zero])
SpikeTen == Array([j \in 1..10 |-> IF j = 4 THEN QInt(1) ELSE Zero])
SquareTen == Array([j \in 1..10 |-> IF j % 2 = 0 THEN QInt(1) ELSE QInt(-1)])

ComponentRows ==
    {<<{<<a, b>> : a \in PairValues, b \in PairValues}, 2>>,
     <<{ZeroTen, SpikeTen, SquareTen}, 10>>}

\* matrices of one or two components of equal length
ComponentMatrices ==
    UNION {{<<r>> : r \in rows[1]} \cup {<<r, q>> : r \in rows[1], q \in rows[1]} :
              rows \in ComponentRows}

InitDetect ==
    /\ RaIdle
    /\ GenIdle
    /\ SpIdle
    /\ ClInit
    /\ PipeIdle
    /\ StageIdle
    /\ IcaIdle
    /\ PageIdle
    /\ GardenIdle
    /\ \E components \in ComponentMatrices :
          det = [pc |-> "components", components |-> components,
                 artifactIndices |-> <<>>, cleanComponents |-> <<>>]

\* const artifactIndices = detectArtifacts(components)
DetectArtifacts ==
    /\ det.pc = "components"
    /\ det' = [det EXCEPT !.pc = "detected",
                          !.artifactIndices = detectArtifacts(det.components)]
    /\ UNCHANGED <<raVars, genVars, spVars, clVars, pipe, stage, ica, page, garden>>

\* const cleanComponents = components.map(...)
CleanDetected ==
    /\ det.pc = "detected"
    /\ det' = [det EXCEPT !.pc = "cleaned",
                          !.cleanComponents =
                              CleanComponents(det.components, det.artifactIndices)]
    /\ UNCHANGED <<raVars, genVars, spVars, clVars, pipe, stage, ica, page, garden>>

NextDetect == DetectArtifacts \/ CleanDetected

SpecDetect == InitDetect /\ [][NextDetect]_vars

\* the k-th central moment of a component, k = 2 or 4
CentralMoment(comp, k) ==
    QDiv(QSum(Array([j \in 1..Len(comp) |->
                        IF k = 2
                        THEN QMul(QSub(comp[j], CompMean(comp)),
                                  QSub(comp[j], CompMean(comp)))
                        ELSE Pow4(QSub(comp[j], CompMean(comp)))])),
         QInt(Len(comp)))

\* fourth central moment over the squared variance, minus 3
ExcessKurtosis(comp) ==
    QSub(QDiv(CentralMoment(comp, 4),
              QMul(CentralMoment(comp, 2), CentralMoment(comp, 2))),
         QInt(3))

PeakAmplitude(comp) ==
    CHOOSE x \in {QAbs(comp[j]) : j \in 1..Len(comp)} :
        \A j \in 1..Len(comp) : QGe(x, QAbs(comp[j]))

StandardDeviation(comp) == QSqrt(CentralMoment(comp, 2))

KurtosisOver(comp) == QGt(ExcessKurtosis(comp), QInt(5))

PeakOver(comp) == QGt(PeakAmplitude(comp), QMul(QInt(6), StandardDeviation(comp)))

Listed(indices, i) == \E k \in 1..Len(indices) : indices[k] = i

\* C21: component index i is in artifactIndices iff its excess kurtosis is
\* strictly greater than 5 or its peak absolute amplitude is strictly greater
\* than 6 times its standard deviation; exactly the components listed in
\* artifactIndices are replaced by all-zero sequences before reconstruction,
\* and every other component enters reconstruction unchanged.
C21_ArtifactComponentsZeroed ==
    /\ det.pc \in {"detected", "cleaned"} =>
           \A i \in 0..(Len(det.components) - 1) :
               Listed(det.artifactIndices, i) <=>
                   (KurtosisOver(det.components[i + 1])
                    \/ PeakOver(det.components[i + 1]))
    /\ det.pc = "cleaned" =>
           /\ Len(det.cleanComponents) = Len(det.components)
           /\ \A i \in 0..(Len(det.components) - 1) :
                  /\ Len(det.cleanComponents[i + 1]) = Len(det.components[i + 1])
                  /\ \A j \in 1..Len(det.components[i + 1]) :
                         det.cleanComponents[i + 1][j] =
                             IF Listed(det.artifactIndices, i)
                             THEN Zero
                             ELSE det.components[i + 1][j]

\* cleaned components of which one is an artifact by its kurtosis alone and
\* was zeroed, and one is no artifact and was kept
C21_Witness ==
    /\ det.pc = "cleaned"
    /\ \E i \in 1..Len(det.components) :
          /\ KurtosisOver(det.components[i])
          /\ ~PeakOver(det.components[i])
          /\ det.cleanComponents[i] # det.components[i]
    /\ \E i \in 1..Len(det.components) :
          /\ ~Listed(det.artifactIndices, i - 1)
          /\ \E j \in 1..Len(det.components[i]) : det.cleanComponents[i][j] # Zero

\* cleaned components of which one is an artifact by its peak alone
C21_PeakWitness ==
    /\ det.pc = "cleaned"
    /\ \E i \in 1..Len(det.components) :
          /\ ~KurtosisOver(det.components[i])
          /\ PeakOver(det.components[i])
          /\ Listed(det.artifactIndices, i - 1)

\* ------------------------------------------------------------------------
\* lib/emotion-classifier: calls of normalizeFeatures
\* ------------------------------------------------------------------------
\* rows of band powers [delta, theta, alpha, beta, gamma]
BandPowerRows ==
    {<<Zero, Zero, Zero, Zero, Zero>>,
     <<QInt(1), QInt(3), Zero, QInt(2), Norm(1, 2)>>,
     <<QInt(3), QInt(1), Zero, QInt(2), Norm(1, 4)>>,
     <<QInt(2), QInt(2), Zero, QInt(2), QInt(5)>>,
     <<QInt(2), Norm(7, 3), QInt(1), QInt(2), Zero>>}

\* feature matrices of one to three windows, and those extractFeatures
\* returns on short signals
FeatureMatrices ==
    {<<r>> : r \in BandPowerRows}
    \cup {<<r, q>> : r \in BandPowerRows, q \in BandPowerRows}
    \cup {<<r, q, t>> : r \in BandPowerRows, q \in BandPowerRows, t \in BandPowerRows}
    \cup {extractFeatures(signal, 16, 4, sequenceLength) :
             signal \in FeatureSignals, sequenceLength \in {2, 3}}

InitNormalize ==
    /\ RaIdle
    /\ GenIdle
    /\ SpIdle
    /\ ClInit
    /\ PipeIdle
    /\ IcaIdle
    /\ DetIdle
    /\ PageIdle
    /\ GardenIdle
    /\ \E features \in FeatureMatrices :
          stage = [pc |-> "called", fn |-> "normalizeFeatures",
                   features |-> features, outcome |-> "pending",
                   output |-> NoOutput]

NormalizeFeatures ==
    /\ stage.pc = "called"
    /\ stage.fn = "normalizeFeatures"
    /\ StageReturn(normalizeFeatures(stage.features))
    /\ UNCHANGED <<raVars, genVars, spVars, clVars, pipe, ica, appVars>>

NextNormalize == NormalizeFeatures

SpecNormalize == InitNormalize /\ [][NextNormalize]_vars

Windows(features) == 1..Len(features)

FlatDimension(features, i) ==
    \A r \in Windows(features), q \in Windows(features) :
        QEq(features[r][i], features[q][i])

\* C22: normalizeFeatures normalizes each of the 5 feature dimensions
\* independently across the windows of one call: every output value lies in
\* [0,1]; in a dimension whose values are not all equal the minimum maps to 0
\* and the maximum to 1; in a dimension whose values are all equal every
\* output is 0.5.
C22_MinMaxPerDimension ==
    StageDone("normalizeFeatures") =>
        /\ Len(stage.output) = Len(stage.features)
        /\ \A r \in Windows(stage.features) :
               /\ Len(stage.output[r]) = 5
               /\ \A i \in 1..5 :
                      /\ QGe(stage.output[r][i], Zero)
                      /\ QLe(stage.output[r][i], QInt(1))
                      /\ FlatDimension(stage.features, i) =>
                             stage.output[r][i] = Norm(1, 2)
                      /\ (/\ ~FlatDimension(stage.features, i)
                          /\ \A q \in Windows(stage.features) :
                                 QLe(stage.features[r][i], stage.features[q][i])) =>
                             stage.output[r][i] = Zero
                      /\ (/\ ~FlatDimension(stage.features, i)
                          /\ \A q \in Windows(stage.features) :
                                 QGe(stage.features[r][i], stage.features[q][i])) =>
                             stage.output[r][i] = QInt(1)

\* a normalized call of three windows with a flat dimension and with a
\* dimension holding a value strictly between its minimum and its maximum
C22_Witness ==
    /\ StageDone("normalizeFeatures")
    /\ Len(stage.features) = 3
    /\ \E i \in 1..5 : FlatDimension(stage.features, i)
    /\ \E i \in 1..5, r \in Windows(stage.features) :
          /\ QGt(stage.output[r][i], Zero)
          /\ QLt(stage.output[r][i], QInt(1))
          /\ ~FlatDimension(stage.features, i)

\* ------------------------------------------------------------------------
\* Claims about overlapping trainModel calls
\* ------------------------------------------------------------------------
\* the trainModel calls that found the handle null
FoundNull == {t \in 1..MaxTrainCalls : trainers[t].created # NullModel}

\* C23: when two trainModel calls overlap while the classifier handle is still
\* null, only one classifier instance is created, and each call returns the
\* instance that it itself fitted.
C23_OneInstanceForOverlappingCalls ==
    Cardinality(FoundNull) >= 2 =>
        /\ Len(instances) = 1
        /\ \A t \in FoundNull :
               trainers[t].pc = "returned" => trainers[t].result = trainers[t].target

\* two overlapping calls have each created an instance, and the one that
\* resumed first has returned the instance the other one fitted
C23_OtherInstanceReturned ==
    /\ Cardinality(FoundNull) >= 2
    /\ Len(instances) >= 2
    /\ \E t \in FoundNull :
          /\ trainers[t].pc = "returned"
          /\ trainers[t].result # trainers[t].target

\* ------------------------------------------------------------------------
\* app/page.tsx: the analyzer page.  Its React state, the runs of
\* handleApplyFilters suspended at await predictEmotion(...), and the
\* classifier handle the runs find.  A state value records the load it was
\* computed from (of) and the filters its samples went through (applied).
\* ------------------------------------------------------------------------
\* signals loaded in one session, and runs pending at one time
MaxLoads == 2
MaxRuns == 2

\* useState(null)
PageNull == [null |-> TRUE]

\* the data of the BrainSignal a generator returns, cut to a few samples
PageData == {ZeroSignal(2), <<QInt(1), QInt(-3)>>}

PredefinedTypes == {"happy", "neutral", "sad"}

\* the FilterSettings the filter controls hand over
PageSettings ==
    [applyBandpass : BOOLEAN, applyNotch : BOOLEAN, applyICA : BOOLEAN,
     bandpassLow : {<<1, 2>>}, bandpassHigh : {QInt(45)},
     notchFreq : NotchFreqs, icaThreshold : {QInt(1)}]

\* the exact filter outputs stay within the integers of the model on silent
\* signals only
WithinModel(data, settings) ==
    AllZero(data) \/ (~settings.applyBandpass /\ ~settings.applyNotch)

\* the filters a field of preprocessSignal's result has gone through:
\* afterBandpass = bandPassFilter(signal, ...), afterNotch =
\* notchFilter(afterBandpass, ...)
AppliedByPreprocess(field) ==
    IF field = "afterBandpass" THEN <<"bandPassFilter">>
    ELSE <<"bandPassFilter", "notchFilter">>

\* the field of preprocessSignal's result handleApplyFilters takes, and the
\* cutoffs it passes: none when both toggles are off
FilterStep(settings) ==
    IF settings.applyBandpass
    THEN [field |-> IF settings.applyNotch THEN "afterNotch" ELSE "afterBandpass",
          low |-> settings.bandpassLow, high |-> settings.bandpassHigh]
    ELSE IF settings.applyNotch
         THEN [field |-> "afterNotch", low |-> Norm(1, 10), high |-> QInt(100)]
    ELSE [field |-> "none", low |-> Zero, high |-> Zero]

\* let processed = [...currentSignal.data], after the filter step
FilteredWith(data, sampleRate, settings, step) ==
    IF step.field = "none" THEN [value |-> data, applied |-> <<>>]
    ELSE [value |-> preprocessSignal(data, sampleRate, step.low, step.high,
                                     settings.notchFreq)[step.field],
          applied |-> AppliedByPreprocess(step.field)]

\* if (settings.applyICA) processed = removeArtifactsSimple(...).cleanSignal
CleanedWith(processed, settings) ==
    IF settings.applyICA
    THEN [value |-> removeArtifactsSimple(processed.value,
                                           settings.icaThreshold).cleanSignal,
          applied |-> Append(processed.applied, "removeArtifactsSimple")]
    ELSE processed

Processed(signal, settings) ==
    CleanedWith(FilteredWith(signal.data, signal.sampleRate, settings,
                             FilterStep(settings)),
                settings)

\* how await predictEmotion(...) resumes: with no model the promise is
\* already resolved and the run continues in the microtask checkpoint of the
\* same task; with a model it waits for prediction.data(), which the backend
\* may resolve at once or in a later task
Wakes == IF model = NullModel THEN {"microtask"} ELSE {"microtask", "task"}

\* what predictEmotion(processed, sampleRate) will resolve to
PagePredictions(processed, sampleRate) ==
    IF model = NullModel
    THEN {ruleBasedClassification(processed, sampleRate)}
    ELSE {ModelSelect(probs) : probs \in {p \in ModelOutputs : p.sad = Zero}}

\* a continuation waits in the microtask queue: no event handler runs before it
MicrotaskPending ==
    \E r \in 1..Len(page.runs) : page.runs[r].wake = "microtask"

\* the module as the page finds it: no model, or one an external training
\* routine has fitted
InitPage ==
    /\ RaIdle
    /\ GenIdle
    /\ SpIdle
    /\ PipeIdle
    /\ StageIdle
    /\ IcaIdle
    /\ DetIdle
    /\ GardenIdle
    /\ model \in {NullModel, 1}
    /\ instances = IF model = NullModel THEN <<>>
                   ELSE <<[fits |-> 1, training |-> FALSE]>>
    /\ trainers = [t \in 1..MaxTrainCalls |-> NoTrainer]
    /\ microtasks = <<>>
    /\ predResult = NoPredict
    /\ page = [currentSignal |-> PageNull, processedSignal |-> PageNull,
               bandPowers |-> PageNull, emotionPrediction |-> PageNull,
               isProcessing |-> FALSE, loads |-> 0, runs |-> <<>>]

\* setCurrentSignal(signal); setProcessedSignal(null);
\* setEmotionPrediction(null); setBandPowers(null)
SignalLoaded(signal) ==
    [page EXCEPT !.currentSignal = signal, !.processedSignal = PageNull,
                 !.emotionPrediction = PageNull, !.bandPowers = PageNull,
                 !.loads = @ + 1]

LoadPredefinedSignal(type, data) ==
    /\ ~MicrotaskPending
    /\ page.loads < MaxLoads
    /\ page' = SignalLoaded([serial |-> page.loads + 1, label |-> type,
                             data |-> data, sampleRate |-> DefaultSampleRate])
    /\ UNCHANGED <<raVars, genVars, spVars, clVars, pipe, stage, ica, det, garden>>

HandleCustomSignal(data) ==
    /\ ~MicrotaskPending
    /\ page.loads < MaxLoads
    /\ page' = SignalLoaded([serial |-> page.loads + 1, label |-> "custom",
                             data |-> data, sampleRate |-> DefaultSampleRate])
    /\ UNCHANGED <<raVars, genVars, spVars, clVars, pipe, stage, ica, det, garden>>

\* handleApplyFilters up to its await: with no signal it returns at once
RunStarted(signal, settings, processed, wake, prediction) ==
    [page EXCEPT
        !.isProcessing = TRUE,
        !.processedSignal = [value |-> processed.value, of |-> signal.serial,
                             applied |-> processed.applied, settings |-> settings],
        !.bandPowers = [value |-> calculateBandPowers(processed.value,
                                                      signal.sampleRate),
                        of |-> signal.serial],
        !.runs = Append(@, [of |-> signal.serial, wake |-> wake,
                            prediction |-> prediction])]

HandleApplyFilters(settings, wake) ==
    /\ ~MicrotaskPending
    /\ page.currentSignal # PageNull
    /\ Len(page.runs) < MaxRuns
    /\ WithinModel(page.currentSignal.data, settings)
    /\ wake \in Wakes
    /\ \E prediction \in PagePredictions(Processed(page.currentSignal, settings).value,
                                         page.currentSignal.sampleRate) :
          page' = RunStarted(page.currentSignal, settings,
                             Processed(page.currentSignal, settings), wake, prediction)
    /\ UNCHANGED <<raVars, genVars, spVars, clVars, pipe, stage, ica, det, garden>>

RemoveAt(s, r) == SubSeq(s, 1, r - 1) \o SubSeq(s, r + 1, Len(s))

\* the run continues after its await: setEmotionPrediction(prediction), and
\* setIsProcessing(false) in the finally block
HandleApplyFiltersResume(r) ==
    /\ r \in 1..Len(page.runs)
    /\ MicrotaskPending => page.runs[r].wake = "microtask"
    /\ \A q \in 1..(r - 1) : page.runs[q].wake # page.runs[r].wake
    /\ page' = [page EXCEPT
                   !.emotionPrediction = [value |-> page.runs[r].prediction,
                                          of |-> page.runs[r].of],
                   !.isProcessing = FALSE,
                   !.runs = RemoveAt(@, r)]
    /\ UNCHANGED <<raVars, genVars, spVars, clVars, pipe, stage, ica, det, garden>>

NextPage ==
    \/ \E type \in PredefinedTypes, data \in PageData : LoadPredefinedSignal(type, data)
    \/ \E data \in PageData : HandleCustomSignal(data)
    \/ \E settings \in PageSettings, wake \in {"microtask", "task"} :
           HandleApplyFilters(settings, wake)
    \/ \E r \in 1..MaxRuns : HandleApplyFiltersResume(r)

SpecPage == InitPage /\ [][NextPage]_vars

FromCurrentSignal(result) ==
    result # PageNull =>
        /\ page.currentSignal # PageNull
        /\ result.of = page.currentSignal.serial

\* C24: on the analyzer page, whenever processedSignal, bandPowers or
\* emotionPrediction is non-null it was computed from the signal currently
\* held in currentSignal: loading or generating a signal clears all three, and
\* a handleApplyFilters run that was started on an earlier signal never stores
\* its results after a newer signal has been loaded.
C24_ResultsOfCurrentSignal ==
    /\ FromCurrentSignal(page.processedSignal)
    /\ FromCurrentSignal(page.bandPowers)
    /\ FromCurrentSignal(page.emotionPrediction)

\* the prediction of a run on an earlier signal is on display with a newer
\* signal
C24_StalePrediction ==
    /\ page.emotionPrediction # PageNull
    /\ page.emotionPrediction.of < page.currentSignal.serial
    /\ page.processedSignal = PageNull

\* with no model, every result is of the current signal
C24_HoldsWithoutModel == model = NullModel => C24_ResultsOfCurrentSignal

Includes(applied, fn) == \E k \in 1..Len(applied) : applied[k] = fn

\* the artifact removal of the settings, applied to the samples given
ThenCleaned(samples, settings) ==
    IF settings.applyICA
    THEN removeArtifactsSimple(samples, settings.icaThreshold).cleanSignal
    ELSE samples

\* C25: in handleApplyFilters a stage whose toggle is off is not applied: with
\* applyBandpass off and applyNotch on, the processed signal equals the notch
\* filter applied directly to the original data with no band-pass filtering;
\* with all three toggles off it equals the original data sample for sample.
C25_ToggledOffStageNotApplied ==
    page.processedSignal # PageNull =>
        /\ (/\ ~page.processedSignal.settings.applyBandpass
            /\ page.processedSignal.settings.applyNotch) =>
               /\ ~Includes(page.processedSignal.applied, "bandPassFilter")
               /\ page.processedSignal.value =
                      ThenCleaned(notchFilter(page.currentSignal.data,
                                              page.processedSignal.settings.notchFreq,
                                              page.currentSignal.sampleRate),
                                  page.processedSignal.settings)
        /\ (/\ ~page.processedSignal.settings.applyBandpass
            /\ ~page.processedSignal.settings.applyNotch
            /\ ~page.processedSignal.settings.applyICA) =>
               page.processedSignal.value = page.currentSignal.data

\* the part of C25 on the three toggles off, and on the artifact removal and
\* the notch filter: each is applied exactly when its toggle is on
C25_OtherTogglesRespected ==
    page.processedSignal # PageNull =>
        /\ Includes(page.processedSignal.applied, "notchFilter") <=>
               page.processedSignal.settings.applyNotch
        /\ Includes(page.processedSignal.applied, "removeArtifactsSimple") <=>
               page.processedSignal.settings.applyICA
        /\ page.processedSignal.settings.applyBandpass =>
               Includes(page.processedSignal.applied, "bandPassFilter")
        /\ page.processedSignal.applied = <<>> =>
               page.processedSignal.value = page.currentSignal.data

\* a run with the band-pass toggle off and the notch toggle on has stored
\* samples that went through bandPassFilter(0.1, 100)
C25_BandPassedAnyway ==
    /\ page.processedSignal # PageNull
    /\ ~page.processedSignal.settings.applyBandpass
    /\ page.processedSignal.settings.applyNotch
    /\ Includes(page.processedSignal.applied, "bandPassFilter")

\* ------------------------------------------------------------------------
\* app/mind-garden/page.tsx: the Mind Garden game.  gameState, currentEmotion,
\* and the runs of processSignal suspended at await predictEmotion(...).  An
\* entry of emotionHistory is kept as the emotion of its prediction.
\* ------------------------------------------------------------------------
\* emotion updates followed from an initial state
MaxUpdates == 3

Emotions == {"happy", "neutral", "sad"}

\* useState<GameState>({...}), and the state resetGame sets
InitialGame ==
    [weather |-> "cloudy", growthStage |-> 0, health |-> 50, flowers |-> 0,
     birds |-> 0, weeds |-> 0, score |-> 0, isPlaying |-> FALSE,
     emotionHistory |-> <<>>]

Min(a, b) == IF a < b THEN a ELSE b
Max(a, b) == IF a > b THEN a ELSE b

\* the outcomes of the Math.random() comparisons of one update
Draws == [flower : BOOLEAN, bird : BOOLEAN, weed : BOOLEAN]

OneIf(draw) == IF draw THEN 1 ELSE 0

\* [...prev.emotionHistory.slice(-9), prediction]
HistoryWith(history, emotion) ==
    Append(SubSeq(history, Max(1, Len(history) - 8), Len(history)), emotion)

\* the happy branch with health left uncapped
HappyStateUncapped(prev, draws) ==
    [prev EXCEPT
        !.weather = "sunny",
        !.health = prev.health + 5,
        !.flowers = Min(8, prev.flowers + OneIf(draws.flower)),
        !.birds = Min(3, prev.birds + OneIf(draws.bird)),
        !.weeds = Max(0, prev.weeds - 1),
        !.score = prev.score + 10,
        !.growthStage = IF prev.health > 70 /\ prev.growthStage < 5
                        THEN Min(5, prev.growthStage + 1)
                        ELSE prev.growthStage]

\* prediction.emotion === 'happy'
HappyState(prev, draws) ==
    [prev EXCEPT
        !.weather = "sunny",
        !.health = Min(100, prev.health + 5),
        !.flowers = Min(8, prev.flowers + OneIf(draws.flower)),
        !.birds = Min(3, prev.birds + OneIf(draws.bird)),
        !.weeds = Max(0, prev.weeds - 1),
        !.score = prev.score + 10,
        !.growthStage = IF prev.health > 70 /\ prev.growthStage < 5
                        THEN Min(5, prev.growthStage + 1)
                        ELSE prev.growthStage]

\* prediction.emotion === 'sad'
SadState(prev, draws) ==
    [prev EXCEPT
        !.weather = "rainy",
        !.health = Max(0, prev.health - 8),
        !.flowers = Max(0, prev.flowers - OneIf(draws.flower)),
        !.birds = Max(0, prev.birds - 1),
        !.weeds = Min(5, prev.weeds + OneIf(draws.weed)),
        !.growthStage = IF prev.health < 30 /\ prev.growthStage > 0
                        THEN Max(0, prev.growthStage - 1)
                        ELSE prev.growthStage]

\* neutral
NeutralState(prev) ==
    [prev EXCEPT
        !.weather = "cloudy",
        !.health = Min(100, prev.health + 1),
        !.score = prev.score + 2]

\* the updater updateGameState hands to setGameState
updateGameState(prev, emotion, draws) ==
    [(CASE emotion = "happy" -> HappyState(prev, draws)
        [] emotion = "sad" -> SadState(prev, draws)
        [] OTHER -> NeutralState(prev))
     EXCEPT !.emotionHistory = HistoryWith(prev.emotionHistory, emotion)]

\* a game started and played through the first k emotions of a run, every
\* draw coming out above its threshold
RECURSIVE Played(_, _)
Played(run, k) ==
    IF k = 0 THEN [InitialGame EXCEPT !.isPlaying = TRUE]
    ELSE updateGameState(Played(run, k - 1), run[k],
                         [flower |-> TRUE, bird |-> TRUE, weed |-> TRUE])

Repeat(emotion, n) == [i \in 1..n |-> emotion]

\* the games the updates are followed from: a fresh one, one at its upper
\* limits, one at its lower limits, one about to grow, one about to shrink
WarmUps ==
    {<<>>,
     Repeat("happy", 10),
     Repeat("sad", 7),
     Repeat("happy", 5) \o Repeat("neutral", 4),
     Repeat("happy", 6) \o Repeat("sad", 7)}

GardenMicrotaskPending ==
    \E r \in 1..Len(garden.runs) : garden.runs[r].wake = "microtask"

InitGarden ==
    /\ RaIdle
    /\ GenIdle
    /\ SpIdle
    /\ PipeIdle
    /\ StageIdle
    /\ IcaIdle
    /\ DetIdle
    /\ PageIdle
    /\ model \in {NullModel, 1}
    /\ instances = IF model = NullModel THEN <<>>
                   ELSE <<[fits |-> 1, training |-> FALSE]>>
    /\ trainers = [t \in 1..MaxTrainCalls |-> NoTrainer]
    /\ microtasks = <<>>
    /\ predResult = NoPredict
    /\ \E game \in {InitialGame} \cup {Played(run, Len(run)) : run \in WarmUps} :
          garden = [game |-> game,
                    currentEmotion |->
                        IF game.emotionHistory = <<>> THEN PageNull
                        ELSE [emotion |->
                                 game.emotionHistory[Len(game.emotionHistory)]],
                    isProcessing |-> FALSE, runs |-> <<>>, updates |-> 0]

\* setGameState(prev => ({ ...prev, isPlaying: true })); the effect sets the
\* interval
StartGame ==
    /\ ~GardenMicrotaskPending
    /\ ~garden.game.isPlaying
    /\ garden' = [garden EXCEPT !.game.isPlaying = TRUE]
    /\ UNCHANGED <<raVars, genVars, spVars, clVars, pipe, stage, ica, det, page>>

\* setGameState(prev => ({ ...prev, isPlaying: false })); the effect clears
\* the interval
PauseGame ==
    /\ ~GardenMicrotaskPending
    /\ garden.game.isPlaying
    /\ garden' = [garden EXCEPT !.game.isPlaying = FALSE]
    /\ UNCHANGED <<raVars, genVars, spVars, clVars, pipe, stage, ica, det, page>>

\* setGameState({...}); setCurrentEmotion(null)
ResetGame ==
    /\ ~GardenMicrotaskPending
    /\ garden' = [garden EXCEPT !.game = InitialGame, !.currentEmotion = PageNull]
    /\ UNCHANGED <<raVars, genVars, spVars, clVars, pipe, stage, ica, det, page>>

\* the interval fires: processSignal runs up to its await.  The signal is
\* drawn at random and the prediction may name any emotion.
ProcessSignal(emotion, wake) ==
    /\ ~GardenMicrotaskPending
    /\ garden.game.isPlaying
    /\ Len(garden.runs) < MaxRuns
    /\ garden.updates + Len(garden.runs) < MaxUpdates
    /\ wake \in Wakes
    /\ garden' = [garden EXCEPT
                     !.isProcessing = TRUE,
                     !.runs = Append(@, [emotion |-> emotion, wake |-> wake])]
    /\ UNCHANGED <<raVars, genVars, spVars, clVars, pipe, stage, ica, det, page>>

\* the run continues after its await: setCurrentEmotion(prediction),
\* updateGameState(prediction), and setIsProcessing(false) in the finally block
ProcessSignalResume(r, draws) ==
    /\ r \in 1..Len(garden.runs)
    /\ GardenMicrotaskPending => garden.runs[r].wake = "microtask"
    /\ \A q \in 1..(r - 1) : garden.runs[q].wake # garden.runs[r].wake
    /\ garden' = [garden EXCEPT
                     !.currentEmotion = [emotion |-> garden.runs[r].emotion],
                     !.game = updateGameState(garden.game, garden.runs[r].emotion,
                                              draws),
                     !.isProcessing = FALSE,
                     !.runs = RemoveAt(@, r),
                     !.updates = @ + 1]
    /\ UNCHANGED <<raVars, genVars, spVars, clVars, pipe, stage, ica, det, page>>

NextGarden ==
    \/ StartGame
    \/ PauseGame
    \/ ResetGame
    \/ \E emotion \in Emotions, wake \in {"microtask", "task"} :
           ProcessSignal(emotion, wake)
    \/ \E r \in 1..MaxRuns, draws \in Draws : ProcessSignalResume(r, draws)

SpecGarden == InitGarden /\ [][NextGarden]_vars

GameInBounds(game) ==
    /\ game.health \in 0..100
    /\ game.flowers \in 0..8
    /\ game.birds \in 0..3
    /\ game.weeds \in 0..5
    /\ game.growthStage \in 0..5
    /\ Len(game.emotionHistory) <= 10

\* C26: after any sequence of start, pause, reset and emotion updates in the
\* Mind Garden game, the state stays in bounds: health in 0..100, flowers in
\* 0..8, birds in 0..3, weeds in 0..5, growthStage in 0..5 changing by at most
\* 1 per update, emotionHistory holding at most 10 entries, and score never
\* decreasing except by reset to 0.
C26_GameStaysInBounds ==
    /\ []GameInBounds(garden.game)
    /\ [][/\ garden'.updates # garden.updates =>
                garden'.game.growthStage - garden.game.growthStage \in {-1, 0, 1}
          /\ \/ garden'.game.score >= garden.game.score
             \/ garden'.game = InitialGame]_vars

\* an update has acted on a game at its upper limits and on a full history
C26_Witness ==
    /\ garden.updates > 0
    /\ garden.game.health = 100
    /\ garden.game.flowers = 8
    /\ garden.game.birds = 3
    /\ garden.game.growthStage = 5
    /\ Len(garden.game.emotionHistory) = 10
    /\ garden.game.score > 100

\* an update has acted on a game at its lower limits
C26_LowWitness ==
    /\ garden.updates > 0
    /\ garden.game.health = 0
    /\ garden.game.weeds = 5
    /\ garden.game.flowers = 0
    /\ garden.game.weather = "rainy"

\* the fields of the garden: gameState without isPlaying
Garden(game) == [game EXCEPT !.isPlaying = FALSE]

\* C27: garden state (weather, health, flowers, birds, weeds, growthStage,
\* score, emotionHistory) changes only while isPlaying is true: once pauseGame
\* or resetGame has set isPlaying to false, a processSignal run that was
\* already awaiting its prediction does not apply updateGameState afterwards.
C27_NoUpdateWhilePaused ==
    [][(~garden.game.isPlaying /\ Garden(garden'.game) # Garden(garden.game)) =>
           garden'.game = InitialGame]_vars

\* a run has applied its update to a game that is not playing
C27_UpdatedWhilePaused ==
    /\ ~garden.game.isPlaying
    /\ garden.updates > 0
    /\ garden.game.emotionHistory # <<>>
    /\ garden.currentEmotion # PageNull
    /\ garden.game.score = 10

\* with no model, no update is applied to a game that is not playing
C27_HoldsWithoutModel ==
    [][(model = NullModel /\ ~garden.game.isPlaying
        /\ Garden(garden'.game) # Garden(garden.game)) =>
           garden'.game = InitialGame]_vars

\* ------------------------------------------------------------------------
\* Claims about the shape of removeArtifactsSimple's result
\* ------------------------------------------------------------------------
ConstantInput(signal) == \A i \in 1..Len(signal) : signal[i] = signal[1]

StrictlyIncreasing(indices) ==
    \A j \in 1..(Len(indices) - 1) : indices[j] < indices[j + 1]

\* the lengths, the changed samples and the order of the indices
RaShape ==
    /\ Len(raResult.cleanSignal) = Len(raCall.signal)
    /\ Len(raResult.removedArtifacts) = Len(raCall.signal)
    /\ \A i \in 1..Len(raCall.signal) :
           /\ raResult.cleanSignal[i] # raCall.signal[i] <=>
                  raResult.removedArtifacts[i] # Zero
           /\ raResult.cleanSignal[i] # raCall.signal[i] => (i - 1) \in RaFlagged
    /\ RaFlagged \subseteq 0..(Len(raCall.signal) - 1)
    /\ StrictlyIncreasing(raResult.artifactIndices)

\* C28: removeArtifactsSimple returns cleanSignal and removedArtifacts of the
\* same length as the input, and cleanSignal[i] differs from signal[i]
\* (equivalently removedArtifacts[i] is non-zero) only at indices listed in
\* artifactIndices, which holds sample positions in strictly increasing order;
\* in particular for a constant input (standard deviation 0) no sample is
\* flagged and cleanSignal equals the input.
C28_ChangesOnlyAtFlagged ==
    RaReturned =>
        /\ RaShape
        /\ ConstantInput(raCall.signal) =>
               /\ raResult.artifactIndices = <<>>
               /\ raResult.cleanSignal = raCall.signal

\* the part of C28 that does not concern constant inputs
C28_Shape == RaReturned => RaShape

\* a constant input of which samples were flagged
C28_ConstantFlagged ==
    /\ RaReturned
    /\ ConstantInput(raCall.signal)
    /\ raResult.artifactIndices # <<>>

\* ------------------------------------------------------------------------
\* Claims about the two selection logics of predictEmotion
\* ------------------------------------------------------------------------
\* two or more classes share the maximum of the triple
TiedMaximum(p) ==
    \E e \in Emotions, f \in Emotions :
        /\ e # f
        /\ QEq(p[e], p[f])
        /\ \A h \in Emotions : QGe(p[e], p[h])

\* C29: the two classification paths break ties the same way: for any
\* probability triple in which two or more classes share the maximum, the
\* selection logic of the rule-based path and the selection logic of the
\* model path of predictEmotion report the same emotion.
C29_SameTieBreak ==
    (predResult.path # "none" /\ TiedMaximum(predResult.prediction.probabilities)) =>
        /\ predResult.prediction.emotion =
               RuleBasedSelect(predResult.prediction.probabilities).emotion
        /\ predResult.prediction.emotion =
               ModelSelect(predResult.prediction.probabilities).emotion

\* a prediction of the model path on a triple with happy and neutral tied at
\* the maximum, for which the rule-based selection names another emotion
C29_TieBrokenDifferently ==
    /\ predResult.path = "model"
    /\ TiedMaximum(predResult.prediction.probabilities)
    /\ predResult.prediction.emotion = "happy"
    /\ RuleBasedSelect(predResult.prediction.probabilities).emotion = "neutral"

\* ties that do not involve both happy and neutral are broken alike
C29_OtherTiesAlike ==
    (/\ predResult.path # "none"
     /\ TiedMaximum(predResult.prediction.probabilities)
     /\ ~(/\ QEq(predResult.prediction.probabilities.happy,
                 predResult.prediction.probabilities.neutral)
          /\ QGe(predResult.prediction.probabilities.happy,
                 predResult.prediction.probabilities.sad))) =>
        RuleBasedSelect(predResult.prediction.probabilities).emotion =
            ModelSelect(predResult.prediction.probabilities).emotion

\* the positions at which pass i of extractFeatures starts and ends its window
WindowStart(call, i) == i * StepOf(call)
WindowEnd(call, i) == WindowStart(call, i) + call.windowSize

\* pass i of the call had to push zeros
Padded(call, i) ==
    Len(WindowArrays(call.signal, WindowStart(call, i), WindowEnd(call, i)).window)
        < call.windowSize

\* C30: in extractFeatures with signal.length >= windowSize and
\* sequenceLength >= 2 every window lies inside the signal: it starts at or
\* after sample 0, ends at or before the last sample, is not padded, and its
\* vector is computed from exactly those windowSize samples of the signal;
\* a padded window or a negative start occurs only for
\* signal.length < windowSize.
C30_WindowsInsideSignal ==
    (StageDone("extractFeatures") /\ stage.sequenceLength >= 2) =>
        /\ Len(stage.signal) >= stage.windowSize =>
              \A i \in 0..(stage.sequenceLength - 1) :
                  /\ WindowStart(stage, i) >= 0
                  /\ WindowEnd(stage, i) <= Len(stage.signal)
                  /\ ~Padded(stage, i)
                  /\ stage.output[i + 1] =
                         FeatureRow(calculateBandPowers(
                             SubSeq(stage.signal, WindowStart(stage, i) + 1,
                                    WindowEnd(stage, i)),
                             stage.sampleRate))
        /\ (\E i \in 0..(stage.sequenceLength - 1) :
                WindowStart(stage, i) < 0 \/ Padded(stage, i)) =>
              Len(stage.signal) < stage.windowSize

\* a returned call of three windows on a signal one sample longer than the
\* window, whose last sample differs from the first
C30_Witness ==
    /\ StageDone("extractFeatures")
    /\ stage.sequenceLength = 3
    /\ Len(stage.signal) = stage.windowSize + 1
    /\ stage.signal[1] # stage.signal[Len(stage.signal)]

\* a returned call on a shorter signal, with a padded window and a negative
\* start
C30_ShortWitness ==
    /\ StageDone("extractFeatures")
    /\ Len(stage.signal) < stage.windowSize
    /\ Padded(stage, 0)
    /\ WindowStart(stage, 1) < 0

====
